---- MODULE Spec2Model ----
(***************************************************************************)
(* Model of the agent-sandbox supervisor (rajivchocolate/agent-sandbox).   *)
(*                                                                         *)
(* Spec     : the execution lifecycle of both backends                     *)
(*            (Runner.executeInternal, DockerRunner.executeInternal), the  *)
(*            deferred cleanup, and Handlers.HandleExecute's audit step.   *)
(* SpecMW   : ConcurrentClaudeMiddleware's compare-and-swap admission.     *)
(* SpecTrunc: truncateOutput applied to the captured stdout and stderr.   *)
(* SpecRL   : RateLimitMiddleware's visitor table and token buckets.       *)
(* SpecSSE  : one SSEWriter, and the event-stream parser of its client.    *)
(* SpecProxy: AuthProxy: secret check, RPM window, header injection.       *)
(* SpecAuth : AuthMiddleware's decision.                                   *)
(* SpecHandler : what HandleExecute and HandleExecuteStream answer.        *)
(* SpecAudit   : AuditWriter: Log, processLoop, writeWithRetry.             *)
(* SpecShutdown: main's shutdown, Close of both backends, the reaper.      *)
(* SpecChain   : the middleware chain NewServer builds.                    *)
(* SpecWorkDir : DockerRunner.validateRequest on req.WorkDir.              *)
(* SpecArgs    : DockerRunner.executeInternal up to cmd.Run: the env_vars  *)
(*               check, the files of hostDir, buildDockerArgs.             *)
(* SpecSeccomp : the emitted seccomp profiles and profileToDockerJSON.    *)
(* SpecClose   : one DockerRunner: executions, reaper passes, Close.      *)
(* SpecStream  : the two SSEWriters of one streaming execution.           *)
(* SpecProxyRace: concurrent calls of AuthProxy.allowRequest.             *)
(* SpecFlush   : AuditWriter.Flush against processLoop and Log;           *)
(* SpecFlushLive adds the fairness of the worker, the waiter and the timer. *)
(*                                                                         *)
(* Environment assumptions of Spec, stated once:                           *)
(*  - A Go select parked on several channels is woken by the first event;  *)
(*    the variable selected records which case woke it.                    *)
(*  - exec.CommandContext kills the process it spawned (the docker CLI     *)
(*    client) when execCtx is done.  The container belongs to the Docker   *)
(*    daemon: it ends when its workload exits (and --rm then removes it)   *)
(*    or when somebody runs docker rm -f on it.                            *)
(*  - containerd calls made with a context that is already done fail.      *)
(*  - The deferred cleanup calls (task.Delete, container.Delete,           *)
(*    os.RemoveAll) succeed when they run; task.Kill in the timeout branch *)
(*    may fail, which the code logs and ignores.                           *)
(***************************************************************************)
EXTENDS Integers, Sequences, FiniteSets, TLC

\* ----------------------------------------------------------------- bounds
NumExecs == 2
MaxConcurrent == 1
AuditBufferSize == 1
NumRequests == 3
MaxClaude == 1
NumIPs == 3
MaxVisitors == 2
MaxTime == 3
MaxSSELen == 3
SSEStdoutLimit == 2
SSEStderrLimit == 1
MaxRPM == 2
TickSecs == 20
MaxProxyTicks == 5
NumAuditRecs == 3
MaxInflight == 1
MaxPasses == 2
CloseTickSecs == 10
NumRaceCallers == 4
NumFlushRecs == 2
RaceRPM == 2

Execs == 1..NumExecs
Reqs == 1..NumRequests

Backends == {"containerd", "docker"}

\* Time advances in ticks.  The limiter's parameters in these units: burst
\* tokens, rps * (one tick) tokens of refill per tick, and the idle time
\* (5 minutes) after which the cleanup goroutine deletes an entry.
Burst == 2
Refill == 1
IdleTicks == 2

IPs == 1..NumIPs

\* Exit codes a workload can end with by itself (0, a plain failure, a
\* signal kill by the kernel's OOM killer).
ExitCodes == {0, 1, 137}

VARIABLES
    \* ---- Spec: execution lifecycle
    backend,    \* which Backend NewBackend returned
    pc,         \* pc[e]: position of execution e in executeInternal / handler
    ctx,        \* ctx[e]: execCtx.Err(): "live" | "canceled" | "deadline"
    sem,        \* number of tokens in the sem channel
    active,     \* the active atomic counter
    wg,         \* DockerRunner.wg
    defers,     \* defers[e]: the deferred calls of e, innermost first
    tempdir,    \* tempdir[e]: the host tempdir of e exists
    container,  \* container[e]: "none" (no such container) | "created" | "running"
    task,       \* task[e] (containerd): "none" | "created" | "running" | "stopped"
    cmd,        \* cmd[e] (docker CLI process): "none" | "running" | "exited" | "killed"
    exitCode,   \* exitCode[e]: exit status delivered by the workload, 0 until there is one
    selected,   \* selected[e]: the case that woke the parked select
    res,        \* res[e]: what executeInternal returns
    trace,      \* trace[e]: the milestones of e in the order they happened
    auditQ,     \* len(AuditWriter.ch)
    \* ---- SpecMW: ConcurrentClaudeMiddleware
    mwActive,   \* the middleware's active atomic counter
    mwPc,       \* mwPc[r]: position of request r in the middleware
    mwCur,      \* mwCur[r]: the value r's last active.Load() returned
    mwLang,     \* mwLang[r]: the language field of r's body
    mwMax,      \* the maxConcurrent the middleware was built with
    \* ---- SpecTrunc: the output fields of an ExecutionResult
    trPc,       \* "captured": the buffers are final | "built": result built
    trOut,      \* len(stdoutBuf.String())
    trErr,      \* len(stderrBuf.String())
    trRes,      \* [output, stderr]: len(result.Output), len(result.Stderr)
    \* ---- SpecRL: RateLimitMiddleware
    rlNow,      \* time.Now(), in ticks
    visitors,   \* the visitors map: ip -> [tokens, lastCheck]
    rlEvicted,  \* the ip the last request deleted to make room, 0 if none
    allowance,  \* admissions the watched ip may still get within its rate
    \* ---- SpecSSE: one SSEWriter and the response it writes to
    sseKind,    \* SSEWriter.event: "stdout" | "stderr"
    sseConn,    \* the response connection: "open" | "broken"
    ssePending, \* bytes the workload has still to write to this stream
    sseTaken,   \* bytes handed to Write so far, in order
    sseWritten, \* SSEWriter.written
    sseFramed,  \* the bytes Write has framed (data after the cut), in order
    sseOut,     \* the bytes of the response body that reached the client
    sseEmitted, \* number of events the writer has sent to the client
    sseRet,     \* last Write: [p |-> len(p), n, err]
    \* ---- SpecProxy: AuthProxy
    pxSecret,   \* AuthProxy.secret ("" = no secret required)
    pxMaxRPM,   \* AuthProxy.maxRPM (0 = unlimited)
    pxNow,      \* time.Now().Unix()
    windowStart, \* AuthProxy.windowStart
    windowCount, \* AuthProxy.windowCount
    pxLog,      \* times of the requests forwarded under an RPM cap, recent ones
    pxLast,     \* the last request: [presented, status, out]: the x-api-key
                \* values it presented, the answer, the headers sent upstream
    \* ---- SpecAuth: AuthMiddleware
    auKeys,     \* allowedKeys, as configured
    auAllow,    \* allowUnauthenticated
    auLast,     \* the last request: [xApiKey, authorization, status, served]
    \* ---- SpecHandler: HandleExecute and HandleExecuteStream, one request
    hdPc,       \* "received" | "answered"
    hdReq,      \* the request: [endpoint, decoded, detections, outcome]
    hdResp,     \* the answer: [status, code, invoked, recorded]
    \* ---- SpecAudit: AuditWriter and the handlers that submit to it
    aqCh,       \* AuditWriter.ch: the queued records, oldest first
    aqReq,      \* aqReq[r]: "result" | "logged" | "answered"
    aqResp,     \* aqResp[r]: the status written to r's client, 0 if none yet
    aqFate,     \* aqFate[r]: "none" | "queued" | "dropped" | "written" | "abandoned"
    aqTried,    \* aqTried[r]: calls of LogExecution made for r's record
    awCur,      \* the record writeWithRetry is working on, 0 if none
    awAttempt,  \* writeWithRetry's loop variable attempt
    awSlept,    \* the backoffs slept for the current record, in ms
    \* ---- SpecShutdown: main, the shutdown goroutine, Close, the reaper
    sdBackend,   \* "containerd" or "docker"
    sdPc,        \* shutdown goroutine: "idle" | "http" | "close" | "wait" | "proxy" | "done"
    sdMain,      \* main goroutine: "serving" | "flush" | "exited"
    sdListening, \* the HTTP listener is open
    sdInflight,  \* executions inside Execute (wg of the backend)
    sdElapsed,   \* seconds Close has waited on its time.After
    sdCloseRet,  \* how Close returned: "none" | "immediate" | "drained" | "timeout"
    sdLog,       \* shutdown events in the order they happened
    jnRunning,   \* the rate limiter's cleanup goroutine is running
    rpPc,        \* orphanCleanupLoop: "none" | "spawned" | "waiting" | "stopped"
    rpTick,      \* a tick is waiting in ticker.C
    rpCancelled, \* cancelCleanup has been called
    rpPasses,    \* calls of cleanupOrphans so far
    rpSince,     \* minutes since the ticker last fired
    rpPresent,   \* names of the containers docker knows
    rpLate,      \* a call of cleanupOrphans began after cancelCleanup
    \* ---- SpecChain: the handler NewServer builds
    chReq,       \* chReq[r]: the request: [path, oversize, language, authed]
    chPc,        \* chPc[r]: "idle" | "in" | "rejected" | "handled" | "done"
    chAt,        \* chAt[r]: index in Outer of the middleware that serves r next
    chTrace,     \* chTrace[r]: the stages that have served r, in order
    chRejectedBy, \* chRejectedBy[r]: the stage that answered r itself, or "none"
    chTokens,    \* RateLimitMiddleware: whole tokens of the client's bucket
    chInflight,  \* MetricsMiddleware: the RequestsInFlight gauge
    chActive,    \* ConcurrentClaudeMiddleware: active
    chMax,       \* ConcurrentClaudeMiddleware: maxConcurrent
    chHandled,   \* the requests a handler was invoked for
    \* ---- SpecWorkDir: DockerRunner.validateRequest on req.WorkDir
    wdRoots,     \* d.allowedRoots
    wdReq,       \* req.WorkDir as sent (the empty string: none)
    wdPc,        \* "received" | "validated" | "revalidated"
    wdErr,       \* "nil" or the error validateRequest returned
    wdReal,      \* req.WorkDir after validateRequest
    \* ---- SpecArgs: DockerRunner.executeInternal up to cmd.Run
    daRunner,    \* the DockerRunner: [proxyPort, proxySecret, env (os.Getenv)]
    daReq,       \* the request: [language, networkEnabled, workDir, envVars]
    daPc,        \* "requested" | "rejected" | "validated" | "coded" |
                 \* "tokened" | "profiled" | "built" | "started"
    daFiles,     \* hostDir: the files in it, as <<name, content>> pairs
    daArgs,      \* the arguments of the docker command
    daEnv,       \* the environment of the started container
    \* ---- SpecSeccomp: the seccomp profiles and profileToDockerJSON
    scVariant,   \* "base" (DefaultProfile) | "network" (NetworkAllowProfile)
    scPc,        \* "idle" | "archs" | "rules" | "rendered"
    scProfile,   \* the *specs.LinuxSeccomp that was built
    scDp,        \* dp, the dockerSeccompProfile that is marshalled
    scIdx,       \* the index of the loop that is running
    scProbe,     \* the last system call tried under both forms, or NoProbe
    \* ---- SpecClose: DockerRunner: executions, the reaper's passes, Close
    drPc,        \* drPc[e]: "idle" | "slot" | "counted" | "running" |
                 \* "exited" | "returned"
    drSem,       \* len(d.sem)
    drWg,        \* the counter of d.wg
    drClosed,    \* d.closed
    drClose,     \* Close: "none" | "waiting" | "drained" | "timeout"
    drWaiter,    \* the goroutine of Close that calls d.wg.Wait():
                 \* "none" | "waiting" | "done"
    drReaper,    \* orphanCleanupLoop: "running" | "stopped"
    drPasses,    \* the passes of cleanupOrphans so far
    drPresent,   \* the containers on the docker host, by name
    drReaped,    \* the names a pass of cleanupOrphans has removed
    \* ---- SpecStream: the two SSEWriters of one streaming execution
    stPc,        \* stPc[k], k the writer's event type: "idle" | "locked" |
                 \* "event" | "data" | "end" (in Write, by what it sent last)
    stLeft,      \* stLeft[k]: the Write calls the copying goroutine still makes
    stLines,     \* stLines[k]: the data lines the running Write still sends
    stN,         \* stN[k]: the number of the running Write
    stOut,       \* what the ResponseWriter received: [by, n, part] per call
    stHandler,   \* HandleExecuteStream: "executing" | "done"
    \* ---- SpecProxyRace: concurrent calls of AuthProxy.allowRequest
    prPc,        \* prPc[p]: "idle" | "reset" (saw the window over) |
                 \* "stored" (has stored windowStart) | "add" (saw the
                 \* window running) | "allowed" | "refused"
    prStart,     \* ap.windowStart
    prCount,     \* ap.windowCount
    prAllowed,   \* the calls that returned true since the window was over
    prResets,    \* the calls among them that stored windowCount = 1
    \* ---- SpecFlush: AuditWriter.Flush against processLoop and Log
    flPc,        \* Flush: "idle" | "waiting" (in its select) | "flushed" |
                 \* "timedout"
    flDone,      \* w.done is closed
    flWorker,    \* processLoop: "loop" | "drain" | "exited"
    flDoneCh,    \* doneCh is closed (wg.Wait has returned)
    flBefore,    \* the records Log had sent on w.ch when Flush was called
    flQueued     \* how many of them were still in w.ch then

exVars == <<backend, pc, ctx, sem, active, wg, defers, tempdir, container, task,
            cmd, exitCode, selected, res, trace, auditQ>>
mwVars == <<mwActive, mwPc, mwCur, mwLang, mwMax>>
trVars == <<trPc, trOut, trErr, trRes>>
rlVars == <<rlNow, visitors, rlEvicted, allowance>>
sseVars == <<sseKind, sseConn, ssePending, sseTaken, sseWritten, sseFramed,
             sseOut, sseEmitted, sseRet>>
pxVars == <<pxSecret, pxMaxRPM, pxNow, windowStart, windowCount, pxLog, pxLast>>
auVars == <<auKeys, auAllow, auLast>>
hdVars == <<hdPc, hdReq, hdResp>>
aqVars == <<aqCh, aqReq, aqResp, aqFate, aqTried, awCur, awAttempt, awSlept>>
sdVars == <<sdBackend, sdPc, sdMain, sdListening, sdInflight, sdElapsed,
            sdCloseRet, sdLog, jnRunning, rpPc, rpTick, rpCancelled, rpPasses,
            rpSince, rpPresent, rpLate>>
chVars == <<chReq, chPc, chAt, chTrace, chRejectedBy, chTokens, chInflight,
            chActive, chMax, chHandled>>
wdVars == <<wdRoots, wdReq, wdPc, wdErr, wdReal>>
daVars == <<daRunner, daReq, daPc, daFiles, daArgs, daEnv>>
scVars == <<scVariant, scPc, scProfile, scDp, scIdx, scProbe>>
drVars == <<drPc, drSem, drWg, drClosed, drClose, drWaiter, drReaper, drPasses, drPresent, drReaped>>
stVars == <<stPc, stLeft, stLines, stN, stOut, stHandler>>
prVars == <<prPc, prStart, prCount, prAllowed, prResets>>
flVars == <<flPc, flDone, flWorker, flDoneCh, flBefore, flQueued>>
vars == <<exVars, mwVars, trVars, rlVars, sseVars, pxVars, auVars, hdVars, aqVars,
          sdVars, chVars, wdVars, daVars, scVars, drVars, stVars, prVars, flVars>>

\* What the actions of one specification leave alone.
nonExVars == <<mwVars, trVars, rlVars, sseVars, pxVars, auVars, hdVars, aqVars, sdVars, chVars, wdVars, daVars, scVars, drVars, stVars, prVars, flVars>>
nonMwVars == <<exVars, trVars, rlVars, sseVars, pxVars, auVars, hdVars, aqVars, sdVars, chVars, wdVars, daVars, scVars, drVars, stVars, prVars, flVars>>
nonTrVars == <<exVars, mwVars, rlVars, sseVars, pxVars, auVars, hdVars, aqVars, sdVars, chVars, wdVars, daVars, scVars, drVars, stVars, prVars, flVars>>
nonRlVars == <<exVars, mwVars, trVars, sseVars, pxVars, auVars, hdVars, aqVars, sdVars, chVars, wdVars, daVars, scVars, drVars, stVars, prVars, flVars>>
nonSseVars == <<exVars, mwVars, trVars, rlVars, pxVars, auVars, hdVars, aqVars, sdVars, chVars, wdVars, daVars, scVars, drVars, stVars, prVars, flVars>>
nonPxVars == <<exVars, mwVars, trVars, rlVars, sseVars, auVars, hdVars, aqVars, sdVars, chVars, wdVars, daVars, scVars, drVars, stVars, prVars, flVars>>
nonAuVars == <<exVars, mwVars, trVars, rlVars, sseVars, pxVars, hdVars, aqVars, sdVars, chVars, wdVars, daVars, scVars, drVars, stVars, prVars, flVars>>
nonHdVars == <<exVars, mwVars, trVars, rlVars, sseVars, pxVars, auVars, aqVars, sdVars, chVars, wdVars, daVars, scVars, drVars, stVars, prVars, flVars>>
nonAqVars == <<exVars, mwVars, trVars, rlVars, sseVars, pxVars, auVars, hdVars, sdVars, chVars, wdVars, daVars, scVars, drVars, stVars, prVars, flVars>>
nonSdVars == <<exVars, mwVars, trVars, rlVars, sseVars, pxVars, auVars, hdVars, aqVars, chVars, wdVars, daVars, scVars, drVars, stVars, prVars, flVars>>
nonChVars == <<exVars, mwVars, trVars, rlVars, sseVars, pxVars, auVars, hdVars, aqVars, sdVars, wdVars, daVars, scVars, drVars, stVars, prVars, flVars>>
nonWdVars == <<exVars, mwVars, trVars, rlVars, sseVars, pxVars, auVars, hdVars, aqVars, sdVars, chVars, daVars, scVars, drVars, stVars, prVars, flVars>>
nonDaVars == <<exVars, mwVars, trVars, rlVars, sseVars, pxVars, auVars, hdVars, aqVars, sdVars, chVars, wdVars, scVars, drVars, stVars, prVars, flVars>>
nonScVars == <<exVars, mwVars, trVars, rlVars, sseVars, pxVars, auVars, hdVars, aqVars, sdVars, chVars, wdVars, daVars, drVars, stVars, prVars, flVars>>
nonDrVars == <<exVars, mwVars, trVars, rlVars, sseVars, pxVars, auVars, hdVars, aqVars, sdVars, chVars, wdVars, daVars, scVars, stVars, prVars, flVars>>
nonStVars == <<exVars, mwVars, trVars, rlVars, sseVars, pxVars, auVars, hdVars, aqVars, sdVars, chVars, wdVars, daVars, scVars, drVars, prVars, flVars>>
nonPrVars == <<exVars, mwVars, trVars, rlVars, sseVars, pxVars, auVars, hdVars, aqVars, sdVars, chVars, wdVars, daVars, scVars, drVars, stVars, flVars>>
nonFlVars == <<exVars, mwVars, trVars, rlVars, sseVars, pxVars, auVars, hdVars, aqVars, sdVars, chVars, wdVars, daVars, scVars, drVars, stVars, prVars>>

\* ------------------------------------------------------------ requests
\* The fields of an ExecutionRequest that validateRequest reads, by class.
Requests ==
    [code     : {"empty", "ok", "too_long"},
     language : {"python", "claude", "unknown"},
     timeout  : {0, 10, 61, 301},
     limits   : {"zero", "valid", "invalid"},
     workDir  : {"none", "ok", "rejected"},
     envVars  : {"ok", "rejected"}]

\* Runner.validateRequest: the containerd backend.
RunnerValidateRequest(r) ==
    IF r.code = "empty" THEN "ErrInvalidRequest"
    ELSE IF r.code = "too_long" THEN "ErrInvalidRequest"
    ELSE IF r.language = "claude" THEN "ErrUnsupportedLang"
    ELSE IF r.language = "unknown" THEN "ErrUnsupportedLang"
    ELSE IF r.timeout > 60 THEN "ErrInvalidRequest"
    ELSE IF r.limits = "invalid" THEN "ErrInvalidRequest"
    ELSE "ok"

\* DockerRunner.validateRequest.
DockerValidateRequest(r) ==
    IF r.code = "empty" THEN "ErrInvalidRequest"
    ELSE IF r.code = "too_long" THEN "ErrInvalidRequest"
    ELSE IF r.language = "unknown" THEN "ErrUnsupportedLang"
    ELSE IF r.timeout > (IF r.language = "claude" THEN 300 ELSE 60)
         THEN "ErrInvalidRequest"
    ELSE IF r.workDir = "rejected" THEN "ErrInvalidRequest"
    ELSE IF r.envVars = "rejected" THEN "ErrInvalidRequest"
    ELSE IF r.limits = "invalid" THEN "ErrInvalidRequest"
    ELSE "ok"

validateRequest(b, r) ==
    IF b = "containerd" THEN RunnerValidateRequest(r) ELSE DockerValidateRequest(r)

\* The verdicts validateRequest gives over all requests.
Verdicts == {validateRequest(backend, r) : r \in Requests}

\* ------------------------------------------------------------- results
NoResult == [kind |-> "none", code |-> 0, event |-> "none", err |-> "nil"]

\* return nil, &ExecutionError{Op: op, Err: ...}.  Op is "validate",
\* "acquire_slot", or the failed step, recorded as "step": the steps differ
\* in what they have deferred, not in what the caller does with the error.
ErrorResult(op) == [kind |-> "error", code |-> 0, event |-> "none", err |-> op]

\* return &ExecutionResult{ExitCode: -1, SecurityEvents: [timeout]}, ErrTimeout
TimeoutResult == [kind |-> "result", code |-> -1, event |-> "timeout", err |-> "ErrTimeout"]

\* return &ExecutionResult{ExitCode: code, SecurityEvents: ev}, nil
ExitResult(code, ev) == [kind |-> "result", code |-> code, event |-> ev, err |-> "nil"]

\* return &ExecutionResult{ExitCode: 137, SecurityEvents: [oom_kill]}, ErrOOM
OOMResult == [kind |-> "result", code |-> 137, event |-> "oom_kill", err |-> "ErrOOM"]

\* A panic leaves executeInternal without a return value.
PanicResult == [kind |-> "panic", code |-> 0, event |-> "none", err |-> "panic"]

Push(s, x) == <<x>> \o s
Mark(e, m) == [trace EXCEPT ![e] = Append(@, m)]
Range(s) == {s[i] : i \in DOMAIN s}

execCtxDone(e) == ctx[e] # "live"

\* The container named sandbox-<id> exists.
ContainerExists(e) == container[e] # "none"

\* The workload of e is running inside its container.
ContainerRunning(e) ==
    IF backend = "containerd" THEN task[e] = "running" ELSE container[e] = "running"

\* Positions between slot acquisition and the return statement.
InSlotPcs == {"create_temp_dir", "write_code", "pull_image", "create_container",
              "create_task", "task_wait", "task_start", "select", "kill_wait",
              "write_seccomp", "docker_run", "cmd_wait"}

\* --------------------------------------------------------------- Init
ExInit ==
    /\ backend \in Backends
    /\ pc = [e \in Execs |-> "idle"]
    /\ ctx = [e \in Execs |-> "live"]
    /\ sem = 0
    /\ active = 0
    /\ wg = 0
    /\ defers = [e \in Execs |-> <<>>]
    /\ tempdir = [e \in Execs |-> FALSE]
    /\ container = [e \in Execs |-> "none"]
    /\ task = [e \in Execs |-> "none"]
    /\ cmd = [e \in Execs |-> "none"]
    /\ exitCode = [e \in Execs |-> 0]
    /\ selected = [e \in Execs |-> "none"]
    /\ res = [e \in Execs |-> NoResult]
    /\ trace = [e \in Execs |-> <<>>]
    /\ auditQ = 0

\* ConcurrentClaudeMiddleware(maxConcurrent)
MWNew(maxConcurrent) ==
    /\ mwActive = 0
    /\ mwPc = [r \in Reqs |-> "idle"]
    /\ mwCur = [r \in Reqs |-> 0]
    /\ mwLang = [r \in Reqs |-> "none"]
    /\ mwMax = maxConcurrent

MWInit == MWNew(MaxClaude)

\* No execution has produced output.
TrIdle ==
    /\ trPc = "captured"
    /\ trOut = 0
    /\ trErr = 0
    /\ trRes = [output |-> 0, stderr |-> 0]

\* RateLimitMiddleware(rps, burst) has just been called: visitors is the
\* empty map.  The watched ip has its whole burst ahead of it.
RLInit ==
    /\ rlNow = 0
    /\ visitors = <<>>
    /\ rlEvicted = 0
    /\ allowance = Burst

\* NewSSEWriter(w, kind) for a workload that will write the bytes b.
SSENew(kind, b) ==
    /\ sseKind = kind
    /\ sseConn = "open"
    /\ ssePending = b
    /\ sseTaken = <<>>
    /\ sseWritten = 0
    /\ sseFramed = <<>>
    /\ sseOut = <<>>
    /\ sseEmitted = 0
    /\ sseRet = [p |-> 0, n |-> 0, err |-> "nil"]

\* The length of the RPM window in seconds.
WindowSecs == 60

\* A request's headers that matter to the proxy: the values of x-api-key
\* and of Authorization in order, and the header names that the request's
\* Connection header lists.
NoHeaders == [xApiKey |-> <<>>, authorization |-> <<>>, connection |-> {}]

\* NewWithRPM(port, token, secret, maxRPM): both atomics are zero, and the
\* clock shows some time later than one window after the epoch.
PxNew(secret, maxRPM) ==
    /\ pxSecret = secret
    /\ pxMaxRPM = maxRPM
    /\ pxNow = WindowSecs
    /\ windowStart = 0
    /\ windowCount = 0
    /\ pxLog = <<>>
    /\ pxLast = [presented |-> <<>>, status |-> 0, out |-> NoHeaders]

\* AuthMiddleware(allowedKeys, allowUnauthenticated), no request yet.
\* Header values are texts, written as sequences of their parts.
AuthNew(keys, allow) ==
    /\ auKeys = keys
    /\ auAllow = allow
    /\ auLast = [xApiKey |-> <<>>, authorization |-> <<>>, status |-> 0,
                 served |-> FALSE]

\* A request that the handlers have received and not yet answered.
NoResponse == [status |-> 0, code |-> "", invoked |-> FALSE, recorded |-> 0]

HdReceived(req) ==
    /\ hdPc = "received"
    /\ hdReq = req
    /\ hdResp = NoResponse

\* A well-formed request without detections, for which the backend has a
\* result.
PlainRequest == [endpoint |-> "/execute", decoded |-> "ok", detections |-> {},
                 outcome |-> "result"]

AuditRecs == 1..NumAuditRecs

\* NewAuditWriter(db, bufferSize) and Start(); every request has its
\* result and is about to call logAudit.
AuditInit ==
    /\ aqCh = <<>>
    /\ aqReq = [r \in AuditRecs |-> "result"]
    /\ aqResp = [r \in AuditRecs |-> 0]
    /\ aqFate = [r \in AuditRecs |-> "none"]
    /\ aqTried = [r \in AuditRecs |-> 0]
    /\ awCur = 0
    /\ awAttempt = 0
    /\ awSlept = <<>>

\* main() up to server.Start(): NewBackend (NewDockerRunner spawns
\* orphanCleanupLoop), NewServer (RateLimitMiddleware spawns its cleanup
\* goroutine), the shutdown goroutine waiting for a signal.
ServerStarted(b, present) ==
    /\ sdBackend = b
    /\ sdPc = "idle"
    /\ sdMain = "serving"
    /\ sdListening = TRUE
    /\ sdInflight = 0
    /\ sdElapsed = 0
    /\ sdCloseRet = "none"
    /\ sdLog = <<>>
    /\ jnRunning = TRUE
    /\ rpPc = IF b = "docker" THEN "spawned" ELSE "none"
    /\ rpTick = FALSE
    /\ rpCancelled = FALSE
    /\ rpPasses = 0
    /\ rpSince = 0
    /\ rpPresent = present
    /\ rpLate = FALSE

ChainReqs == {"r1", "r2"}
NoRequest == [path |-> "", oversize |-> FALSE, language |-> "", authed |-> FALSE]

\* NewServer(cfg, ...): nothing served yet; the tokens the client's bucket
\* holds, maxConcurrent for the agent class.
NewServer(tokens, maxConcurrent) ==
    /\ chReq = [r \in ChainReqs |-> NoRequest]
    /\ chPc = [r \in ChainReqs |-> "idle"]
    /\ chAt = [r \in ChainReqs |-> 0]
    /\ chTrace = [r \in ChainReqs |-> <<>>]
    /\ chRejectedBy = [r \in ChainReqs |-> "none"]
    /\ chTokens = tokens
    /\ chInflight = 0
    /\ chActive = 0
    /\ chMax = maxConcurrent
    /\ chHandled = {}

\* A DockerRunner with the given allowedRoots has received a request
\* whose WorkDir is workDir.
WorkDirReceived(roots, workDir) ==
    /\ wdRoots = roots
    /\ wdReq = workDir
    /\ wdPc = "received"
    /\ wdErr = "nil"
    /\ wdReal = workDir

\* A DockerRunner built by NewDockerRunner with no auth proxy, on a host
\* whose environment holds neither token.
LegacyRunner ==
    [proxyPort |-> 0, proxySecret |-> "",
     env |-> [CLAUDE_CODE_OAUTH_TOKEN |-> "", ANTHROPIC_API_KEY |-> ""]]

\* A request for the python runtime with nothing optional set.
BareRequest ==
    [language |-> "python", networkEnabled |-> FALSE, workDir |-> "",
     envVars |-> <<>>]

\* executeInternal of the runner has been entered with the request.
LaunchRequested(runner, req) ==
    /\ daRunner = runner
    /\ daReq = req
    /\ daPc = "requested"
    /\ daFiles = {}
    /\ daArgs = <<>>
    /\ daEnv = {}

NoProfile == [DefaultAction |-> "", Architectures |-> <<>>, Syscalls |-> <<>>]
NoProbe == [arch |-> "", name |-> "", arg0 |-> 0, oci |-> "", docker |-> ""]

\* No profile has been asked for yet.
SeccompIdle ==
    /\ scVariant = "base"
    /\ scPc = "idle"
    /\ scProfile = NoProfile
    /\ scDp = NoProfile
    /\ scIdx = 0
    /\ scProbe = NoProbe

\* NewDockerRunner on a host that holds the given containers: nothing
\* runs, the semaphore and the wait group are empty, and the reaper's
\* goroutine has been started.
NewDockerRunner(present) ==
    /\ drPc = [e \in Execs |-> "idle"]
    /\ drSem = 0
    /\ drWg = 0
    /\ drClosed = FALSE
    /\ drClose = "none"
    /\ drWaiter = "none"
    /\ drReaper = "running"
    /\ drPasses = 0
    /\ drPresent = present
    /\ drReaped = {}

StreamKinds == {"stdout", "stderr"}

\* HandleExecuteStream has built both writers on the response and called
\* ExecuteStreaming; each copying goroutine has the given Write calls to
\* make.
StreamStarted(writes) ==
    /\ stPc = [k \in StreamKinds |-> "idle"]
    /\ stLeft = writes
    /\ stLines = [k \in StreamKinds |-> 0]
    /\ stN = [k \in StreamKinds |-> 0]
    /\ stOut = <<>>
    /\ stHandler = "executing"

StreamIdle == StreamStarted([k \in StreamKinds |-> 0])

RaceCallers == 1..NumRaceCallers

\* An AuthProxy whose window began at the epoch and has counted the given
\* requests; the clock shows the second at which that window is over, and
\* no call of allowRequest is under way.
WindowOver(count) ==
    /\ prPc = [p \in RaceCallers |-> "idle"]
    /\ prStart = 0
    /\ prCount = count
    /\ prAllowed = 0
    /\ prResets = 0

\* An AuditWriter after Start() on which Flush has not been called.
FlushNotCalled ==
    /\ flPc = "idle"
    /\ flDone = FALSE
    /\ flWorker = "loop"
    /\ flDoneCh = FALSE
    /\ flBefore = {}
    /\ flQueued = 0

Idle ==
    /\ ExInit /\ MWInit /\ TrIdle /\ RLInit /\ SSENew("stdout", <<>>)
    /\ HdReceived(PlainRequest) /\ AuditInit /\ ServerStarted("docker", {})
    /\ NewServer(Burst, MaxClaude) /\ WorkDirReceived({}, <<>>) /\ LaunchRequested(LegacyRunner, BareRequest) /\ SeccompIdle /\ NewDockerRunner({}) /\ StreamIdle /\ WindowOver(0) /\ FlushNotCalled

Init == Idle /\ PxNew("", 0) /\ AuthNew(<<>>, FALSE)

\* ------------------------------------------------- executeInternal
\* A return statement of executeInternal past slot acquisition: the result
\* is fixed, execCtx is not read again, and the deferred calls run next.
Return(e, r) ==
    /\ res' = [res EXCEPT ![e] = r]
    /\ pc' = [pc EXCEPT ![e] = "unwind"]
    /\ ctx' = [ctx EXCEPT ![e] = "live"]

\* A return statement before anything was deferred: the caller has the
\* error at once.
ReturnEarly(e, r) ==
    /\ res' = [res EXCEPT ![e] = r]
    /\ pc' = [pc EXCEPT ![e] = "returned"]
    /\ ctx' = [ctx EXCEPT ![e] = "live"]
    /\ trace' = Mark(e, "returned")

\* An entry that counts the execution as active before it validates, and
\* returns the validation error without undoing that.
ExecuteCountFirst(e) ==
    /\ pc[e] = "idle"
    /\ \E v \in Verdicts :
          IF v # "ok"
          THEN /\ ReturnEarly(e, ErrorResult("validate"))
               /\ active' = active + 1
          ELSE /\ pc' = [pc EXCEPT ![e] = "acquire"]
               /\ trace' = Mark(e, "validated")
               /\ UNCHANGED <<res, ctx, active>>
    /\ UNCHANGED <<backend, sem, wg, defers, tempdir, container, task,
                   cmd, exitCode, selected, auditQ>>
    /\ UNCHANGED nonExVars

\* Entry of executeInternal: validateRequest, and on failure an immediate
\* return.
Execute(e) ==
    /\ pc[e] = "idle"
    /\ \E v \in Verdicts :
          IF v # "ok"
          THEN ReturnEarly(e, ErrorResult("validate"))
          ELSE /\ pc' = [pc EXCEPT ![e] = "acquire"]
               /\ trace' = Mark(e, "validated")
               /\ UNCHANGED <<res, ctx>>
    /\ UNCHANGED <<backend, sem, active, wg, defers, tempdir, container, task,
                   cmd, exitCode, selected, auditQ>>
    /\ UNCHANGED nonExVars

\* The deferred calls registered once the slot is held, innermost first:
\* "active" is cancel(); active.Add(-1); (docker) wg.Done(), and "sem" is
\* the receive from sem.
SlotDefers == <<"active", "sem">>

\* A send that never blocks: a semaphore without a capacity.
SemUnbounded == TRUE

\* The send sem <- struct{}{} can proceed: sem is a channel with
\* maxConcurrent buffer places.
SemHasRoom == sem < MaxConcurrent

\* select { case sem <- struct{}{}: ... }, then wg.Add(1), active.Add(1),
\* context.WithTimeout.
AcquireSlot(e) ==
    /\ pc[e] = "acquire"
    /\ SemHasRoom
    /\ sem' = sem + 1
    /\ active' = active + 1
    /\ wg' = IF backend = "docker" THEN wg + 1 ELSE wg
    /\ defers' = [defers EXCEPT ![e] = SlotDefers]
    /\ pc' = [pc EXCEPT ![e] = "create_temp_dir"]
    /\ trace' = Mark(e, "slot")
    /\ UNCHANGED <<backend, ctx, tempdir, container, task, cmd, exitCode, selected,
                   res, auditQ>>
    /\ UNCHANGED nonExVars

\* A cancelled wait that has already put its token into sem and returns
\* without taking it out again.
AcquireCancelledHolding(e) ==
    /\ pc[e] = "acquire"
    /\ ctx[e] = "canceled"
    /\ sem < MaxConcurrent
    /\ sem' = sem + 1
    /\ ReturnEarly(e, ErrorResult("acquire_slot"))
    /\ UNCHANGED <<backend, active, wg, defers, tempdir, container, task,
                   cmd, exitCode, selected, auditQ>>
    /\ UNCHANGED nonExVars

\* select { ... case <-ctx.Done(): return acquire_slot error }
AcquireCancelled(e) ==
    /\ pc[e] = "acquire"
    /\ ctx[e] = "canceled"
    /\ ReturnEarly(e, ErrorResult("acquire_slot"))
    /\ UNCHANGED <<backend, sem, active, wg, defers, tempdir, container, task,
                   cmd, exitCode, selected, auditQ>>
    /\ UNCHANGED nonExVars

\* os.MkdirTemp; defer os.RemoveAll(hostDir).
CreateTempDir(e) ==
    /\ pc[e] = "create_temp_dir"
    /\ \/ /\ tempdir' = [tempdir EXCEPT ![e] = TRUE]
          /\ defers' = [defers EXCEPT ![e] = Push(@, "remove_tempdir")]
          /\ pc' = [pc EXCEPT ![e] = "write_code"]
          /\ UNCHANGED <<res, ctx>>
       \/ /\ Return(e, ErrorResult("step"))
          /\ UNCHANGED <<tempdir, defers>>
    /\ UNCHANGED <<backend, sem, active, wg, container, task, cmd, exitCode,
                   selected, trace, auditQ>>
    /\ UNCHANGED nonExVars

\* os.WriteFile(code, 0600); os.Chmod(code, 0444).
WriteCode(e) ==
    /\ pc[e] = "write_code"
    /\ \/ /\ pc' = [pc EXCEPT ![e] =
                      IF backend = "docker" THEN "write_seccomp" ELSE "pull_image"]
          /\ UNCHANGED <<res, ctx>>
       \/ Return(e, ErrorResult("step"))
    /\ UNCHANGED <<backend, sem, active, wg, defers, tempdir, container, task,
                   cmd, exitCode, selected, trace, auditQ>>
    /\ UNCHANGED nonExVars

\* ------------------------------------- containerd: Runner.executeInternal
\* r.client.PullImage(execCtx, rt.Image()).  Like every containerd call
\* made with execCtx it fails when execCtx is done, and may fail by itself.
PullImage(e) ==
    /\ pc[e] = "pull_image"
    /\ \/ /\ ~execCtxDone(e)
          /\ pc' = [pc EXCEPT ![e] = "create_container"]
          /\ UNCHANGED <<res, ctx>>
       \/ Return(e, ErrorResult("step"))
    /\ UNCHANGED <<backend, sem, active, wg, defers, tempdir, container, task,
                   cmd, exitCode, selected, trace, auditQ>>
    /\ UNCHANGED nonExVars

\* r.createContainer(execCtx, ...); defer r.cleanupContainer(...).
CreateContainer(e) ==
    /\ pc[e] = "create_container"
    /\ \/ /\ ~execCtxDone(e)
          /\ container' = [container EXCEPT ![e] = "created"]
          /\ defers' = [defers EXCEPT ![e] = Push(@, "cleanupContainer")]
          /\ pc' = [pc EXCEPT ![e] = "create_task"]
          /\ UNCHANGED <<res, ctx>>
       \/ /\ Return(e, ErrorResult("step"))
          /\ UNCHANGED <<container, defers>>
    /\ UNCHANGED <<backend, sem, active, wg, tempdir, task, cmd, exitCode,
                   selected, trace, auditQ>>
    /\ UNCHANGED nonExVars

\* container.NewTask(execCtx, ...); defer task.Delete(WithProcessKill).
NewTask(e) ==
    /\ pc[e] = "create_task"
    /\ \/ /\ ~execCtxDone(e)
          /\ task' = [task EXCEPT ![e] = "created"]
          /\ defers' = [defers EXCEPT ![e] = Push(@, "task_delete")]
          /\ pc' = [pc EXCEPT ![e] = "task_wait"]
          /\ UNCHANGED <<res, ctx>>
       \/ /\ Return(e, ErrorResult("step"))
          /\ UNCHANGED <<task, defers>>
    /\ UNCHANGED <<backend, sem, active, wg, tempdir, container, cmd, exitCode,
                   selected, trace, auditQ>>
    /\ UNCHANGED nonExVars

\* exitCh, err := task.Wait(execCtx)
TaskWait(e) ==
    /\ pc[e] = "task_wait"
    /\ \/ /\ ~execCtxDone(e)
          /\ pc' = [pc EXCEPT ![e] = "task_start"]
          /\ UNCHANGED <<res, ctx>>
       \/ Return(e, ErrorResult("step"))
    /\ UNCHANGED <<backend, sem, active, wg, defers, tempdir, container, task,
                   cmd, exitCode, selected, trace, auditQ>>
    /\ UNCHANGED nonExVars

\* task.Start(execCtx); the runner then parks in the select on exitCh and
\* execCtx.Done().
TaskStart(e) ==
    /\ pc[e] = "task_start"
    /\ \/ /\ ~execCtxDone(e)
          /\ task' = [task EXCEPT ![e] = "running"]
          /\ pc' = [pc EXCEPT ![e] = "select"]
          /\ trace' = Mark(e, "started")
          /\ UNCHANGED <<res, ctx>>
       \/ /\ Return(e, ErrorResult("step"))
          /\ UNCHANGED <<task, trace>>
    /\ UNCHANGED <<backend, sem, active, wg, defers, tempdir, container, cmd,
                   exitCode, selected, auditQ>>
    /\ UNCHANGED nonExVars

\* isOOMKilled is a placeholder that returns false.
isOOMKilled == FALSE

\* case status := <-exitCh: the status' exit code is passed through; the
\* oom_kill return is taken only if isOOMKilled.
SelectExit(e) ==
    /\ pc[e] = "select"
    /\ selected[e] = "exit"
    /\ Return(e, IF isOOMKilled THEN OOMResult ELSE ExitResult(exitCode[e], "none"))
    /\ selected' = [selected EXCEPT ![e] = "none"]
    /\ exitCode' = [exitCode EXCEPT ![e] = 0]
    /\ UNCHANGED <<backend, sem, active, wg, defers, tempdir, container, task,
                   cmd, trace, auditQ>>
    /\ UNCHANGED nonExVars

\* case <-execCtx.Done(): task.Kill(context.Background(), 9).  An error of
\* Kill is logged and the runner goes on to <-exitCh all the same.
SelectDone(e) ==
    /\ pc[e] = "select"
    /\ selected[e] = "done"
    /\ \E killed \in BOOLEAN :
         /\ task' = [task EXCEPT ![e] =
                       IF @ = "running" /\ killed THEN "stopped" ELSE @]
         /\ trace' = IF task[e] = "running" /\ killed
                     THEN Mark(e, "streams") ELSE trace
    /\ selected' = [selected EXCEPT ![e] = "none"]
    /\ exitCode' = [exitCode EXCEPT ![e] = 0]
    /\ pc' = [pc EXCEPT ![e] = "kill_wait"]
    /\ UNCHANGED <<backend, ctx, sem, active, wg, defers, tempdir, container, cmd,
                   res, auditQ>>
    /\ UNCHANGED nonExVars

\* <-exitCh after the kill, then return the timeout result with ErrTimeout.
KillWait(e) ==
    /\ pc[e] = "kill_wait"
    /\ task[e] = "stopped"
    /\ Return(e, TimeoutResult)
    /\ UNCHANGED <<backend, sem, active, wg, defers, tempdir, container, task,
                   cmd, exitCode, selected, trace, auditQ>>
    /\ UNCHANGED nonExVars

\* --------------------------------------- docker: DockerRunner.executeInternal
\* write_token (claude without the auth proxy), seccomp profile rendering
\* and os.WriteFile(seccomp.json).
WriteSeccomp(e) ==
    /\ pc[e] = "write_seccomp"
    /\ \/ /\ pc' = [pc EXCEPT ![e] = "docker_run"]
          /\ UNCHANGED <<res, ctx>>
       \/ Return(e, ErrorResult("step"))
    /\ UNCHANGED <<backend, sem, active, wg, defers, tempdir, container, task,
                   cmd, exitCode, selected, trace, auditQ>>
    /\ UNCHANGED nonExVars

\* How executeInternal reads the error of cmd.Run().  killed: the CLI was
\* killed by execCtx (an ExitError whose ExitCode() is -1); code: the CLI's
\* own exit code, which docker run takes from the workload.
ClassifyRun(e, killed, code) ==
    IF killed \/ code # 0
    THEN IF ctx[e] = "deadline" THEN TimeoutResult
         ELSE LET c == IF killed THEN -1 ELSE code IN
              ExitResult(c, IF c = 137 THEN "oom_kill" ELSE "none")
    ELSE ExitResult(0, "none")

\* cmd.Run(), first half: cmd.Start of `docker run --rm --name sandbox-<id>`.
\* With execCtx already done Start returns ctx.Err(), which is no ExitError.
DockerRun(e) ==
    /\ pc[e] = "docker_run"
    /\ \/ /\ ~execCtxDone(e)
          /\ cmd' = [cmd EXCEPT ![e] = "running"]
          /\ container' = [container EXCEPT ![e] = "running"]
          /\ pc' = [pc EXCEPT ![e] = "cmd_wait"]
          /\ trace' = Mark(e, "started")
          /\ UNCHANGED <<res, ctx>>
       \/ /\ Return(e, IF ctx[e] = "deadline" THEN TimeoutResult
                       ELSE ErrorResult("step"))
          /\ UNCHANGED <<cmd, container, trace>>
    /\ UNCHANGED <<backend, sem, active, wg, defers, tempdir, task, exitCode,
                   selected, auditQ>>
    /\ UNCHANGED nonExVars

\* cmd.Run(), second half: Wait returns once the CLI process has ended, and
\* the error is classified.
DockerWait(e) ==
    /\ pc[e] = "cmd_wait"
    /\ cmd[e] \in {"exited", "killed"}
    /\ Return(e, ClassifyRun(e, cmd[e] = "killed", exitCode[e]))
    /\ cmd' = [cmd EXCEPT ![e] = "none"]
    /\ exitCode' = [exitCode EXCEPT ![e] = 0]
    /\ UNCHANGED <<backend, sem, active, wg, defers, tempdir, container, task,
                   selected, trace, auditQ>>
    /\ UNCHANGED nonExVars

\* ------------------------------------------------------ environment
\* The select of the containerd runner is woken by the first event that
\* arrives while it is parked.
WakeSelect(e, how) ==
    IF pc[e] = "select" /\ selected[e] = "none"
    THEN [selected EXCEPT ![e] = how]
    ELSE selected

\* execCtx became done: exec.CommandContext kills the docker CLI process it
\* started, which ends the capture of the workload's streams.
KillCmd(e) ==
    /\ cmd' = [cmd EXCEPT ![e] = IF @ = "running" THEN "killed" ELSE @]
    /\ trace' = IF cmd[e] = "running" THEN Mark(e, "streams") ELSE trace

\* The caller's context is cancelled (client went away, server shutdown).
Cancel(e) ==
    /\ pc[e] \in {"acquire"} \cup InSlotPcs
    /\ ctx[e] = "live"
    /\ ctx' = [ctx EXCEPT ![e] = "canceled"]
    /\ selected' = WakeSelect(e, "done")
    /\ KillCmd(e)
    /\ UNCHANGED <<backend, pc, sem, active, wg, defers, tempdir, container, task,
                   exitCode, res, auditQ>>
    /\ UNCHANGED nonExVars

\* The deadline of context.WithTimeout(ctx, timeout) passes.
Expire(e) ==
    /\ pc[e] \in InSlotPcs
    /\ ctx[e] = "live"
    /\ ctx' = [ctx EXCEPT ![e] = "deadline"]
    /\ selected' = WakeSelect(e, "done")
    /\ KillCmd(e)
    /\ UNCHANGED <<backend, pc, sem, active, wg, defers, tempdir, container, task,
                   exitCode, res, auditQ>>
    /\ UNCHANGED nonExVars

\* The workload ends by itself.  containerd: the task stops and exitCh
\* delivers its status.  docker: the container exits and --rm removes it;
\* a CLI process that is still attached exits with the workload's code.
WorkloadExit(e) ==
    /\ ContainerRunning(e)
    /\ IF backend = "containerd"
       THEN /\ task' = [task EXCEPT ![e] = "stopped"]
            /\ selected' = WakeSelect(e, "exit")
            /\ \E c \in ExitCodes :
                 exitCode' = [exitCode EXCEPT ![e] =
                                IF selected'[e] = "exit" THEN c ELSE 0]
            /\ trace' = Mark(e, "streams")
            /\ UNCHANGED <<container, cmd>>
       ELSE /\ container' = [container EXCEPT ![e] = "none"]
            /\ IF cmd[e] = "running"
               THEN /\ cmd' = [cmd EXCEPT ![e] = "exited"]
                    /\ \E c \in ExitCodes : exitCode' = [exitCode EXCEPT ![e] = c]
                    /\ trace' = [trace EXCEPT ![e] = @ \o <<"streams", "destroyed">>]
               ELSE /\ trace' = IF pc[e] = "done" THEN trace ELSE Mark(e, "destroyed")
                    /\ UNCHANGED <<cmd, exitCode>>
            /\ UNCHANGED <<task, selected>>
    /\ UNCHANGED <<backend, pc, ctx, sem, active, wg, defers, tempdir, res, auditQ>>
    /\ UNCHANGED nonExVars

\* DockerRunner.cleanupOrphans, run by orphanCleanupLoop at startup and on
\* every tick: docker ps --filter name=sandbox- lists every running sandbox
\* container and docker rm -f removes each of them.  A CLI process still
\* attached to a removed container exits with 137.
cleanupOrphans ==
    /\ backend = "docker"
    /\ \E e \in Execs : container[e] = "running"
    /\ container' = [e \in Execs |-> "none"]
    /\ cmd' = [e \in Execs |-> IF cmd[e] = "running" THEN "exited" ELSE cmd[e]]
    /\ exitCode' = [e \in Execs |-> IF cmd[e] = "running" THEN 137 ELSE exitCode[e]]
    /\ trace' = [e \in Execs |->
                   IF container[e] # "running" \/ pc[e] = "done" THEN trace[e]
                   ELSE IF cmd[e] = "running"
                        THEN trace[e] \o <<"streams", "destroyed">>
                        ELSE Append(trace[e], "destroyed")]
    /\ UNCHANGED <<backend, pc, ctx, sem, active, wg, defers, tempdir, task,
                   selected, res, auditQ>>
    /\ UNCHANGED nonExVars

\* Positions at which a panic is injected: one before any container exists,
\* one after the container and task were created.
PanicPcs == {"write_code", "task_start", "docker_run"}

\* A panic in executeInternal: no return value, the deferred calls run.
Panic(e) ==
    /\ pc[e] \in PanicPcs
    /\ Return(e, PanicResult)
    /\ UNCHANGED <<backend, sem, active, wg, defers, tempdir, container, task,
                   cmd, exitCode, selected, trace, auditQ>>
    /\ UNCHANGED nonExVars

\* ------------------------------------------------------ deferred calls
\* A cleanup that deals with the task and then returns without deleting
\* the container.
cleanupContainerTaskOnly(e) ==
    /\ task' = [task EXCEPT ![e] = "none"]
    /\ container' = container
    /\ trace' = trace

\* cleanupContainer: kill and delete the task if there is one, then
\* container.Delete(WithSnapshotCleanup).
cleanupContainer(e) ==
    /\ task' = [task EXCEPT ![e] = "none"]
    /\ container' = [container EXCEPT ![e] = "none"]
    /\ trace' = Mark(e, "destroyed")

\* The effect of one deferred call.
RunDeferred(e, d) ==
    /\ IF d = "task_delete"
       THEN task' = [task EXCEPT ![e] = "none"] /\ UNCHANGED container
       ELSE IF d = "cleanupContainer" THEN TRUE
       ELSE UNCHANGED <<task, container>>
    /\ tempdir' = IF d = "remove_tempdir" THEN [tempdir EXCEPT ![e] = FALSE] ELSE tempdir
    /\ active' = IF d = "active" THEN active - 1 ELSE active
    /\ wg' = IF d = "active" /\ backend = "docker" THEN wg - 1 ELSE wg
    /\ sem' = IF d = "sem" THEN sem - 1 ELSE sem

\* executeInternal unwinds: the innermost deferred call runs; after the
\* last one (the receive from sem) the caller has the result.
Unwind(e) ==
    /\ pc[e] = "unwind"
    /\ defers[e] # <<>>
    /\ LET d == Head(defers[e])
           last == Len(defers[e]) = 1
       IN /\ RunDeferred(e, d)
          /\ defers' = [defers EXCEPT ![e] = Tail(@)]
          /\ pc' = [pc EXCEPT ![e] = IF last THEN "returned" ELSE "unwind"]
          /\ IF d = "cleanupContainer" THEN cleanupContainer(e)
             ELSE trace' = IF last THEN Mark(e, "returned") ELSE trace
    /\ UNCHANGED <<backend, ctx, cmd, exitCode, selected, res, auditQ>>
    /\ UNCHANGED nonExVars

\* ------------------------------------------------------------ handler
\* AuditWriter.Log: a non-blocking send; the entry is dropped when the
\* buffer is full.
Log(q) == IF q < AuditBufferSize THEN q + 1 ELSE q

\* `if result != nil` in HandleExecuteStream, which then sends the done
\* event and calls logAudit; HandleExecute reaches logAudit and its 200 on
\* the same condition (its error returns are the cases with no result).
HasResult(r) == r.kind = "result"

\* Handlers.HandleExecute after backend.Execute returned: an error without
\* a result is answered at once (400 or 500); a result is handed to
\* logAudit before the response is written.
HandleExecute(e) ==
    /\ pc[e] = "returned"
    /\ IF HasResult(res[e])
       THEN /\ auditQ' = Log(auditQ)
            /\ pc' = [pc EXCEPT ![e] = "respond"]
            /\ trace' = Mark(e, "audit")
       ELSE /\ pc' = [pc EXCEPT ![e] = "done"]
            /\ trace' = [trace EXCEPT ![e] = <<>>]
            /\ UNCHANGED auditQ
    /\ res' = [res EXCEPT ![e] = NoResult]
    /\ UNCHANGED <<backend, ctx, sem, active, wg, defers, tempdir, container, task,
                   cmd, exitCode, selected>>
    /\ UNCHANGED nonExVars

\* writeJSON(w, http.StatusOK, resp): the request is over.
writeJSON(e) ==
    /\ pc[e] = "respond"
    /\ pc' = [pc EXCEPT ![e] = "done"]
    /\ trace' = [trace EXCEPT ![e] = <<>>]
    /\ UNCHANGED <<backend, ctx, sem, active, wg, defers, tempdir, container, task,
                   cmd, exitCode, selected, res, auditQ>>
    /\ UNCHANGED nonExVars

\* AuditWriter.processLoop: case exec := <-w.ch, then writeWithRetry.
processLoop ==
    /\ auditQ > 0
    /\ auditQ' = auditQ - 1
    /\ UNCHANGED <<backend, pc, ctx, sem, active, wg, defers, tempdir, container,
                   task, cmd, exitCode, selected, res, trace>>
    /\ UNCHANGED nonExVars

\* ------------------------------------------ ConcurrentClaudeMiddleware
\* Languages by what the middleware's peek at the body decides: "claude",
\* or anything else (another language, a body that is not JSON).
MWLanguages == {"claude", "other"}

\* The handler entered: io.ReadAll(r.Body), json.Unmarshal into partial.
\* A request that is not a claude request goes to next.ServeHTTP uncounted.
MWArrive(r) ==
    /\ mwPc[r] = "idle"
    /\ \E l \in MWLanguages :
         /\ mwLang' = [mwLang EXCEPT ![r] = l]
         /\ mwPc' = [mwPc EXCEPT ![r] = IF l = "claude" THEN "load" ELSE "serving"]
    /\ UNCHANGED <<mwActive, mwCur, mwMax>>
    /\ UNCHANGED nonMwVars

\* cur := active.Load(); if cur >= int64(maxConcurrent) { 429; return }
MWLoad(r) ==
    /\ mwPc[r] = "load"
    /\ IF mwActive >= mwMax
       THEN /\ mwPc' = [mwPc EXCEPT ![r] = "rejected"]
            /\ UNCHANGED mwCur
       ELSE /\ mwPc' = [mwPc EXCEPT ![r] = "cas"]
            /\ mwCur' = [mwCur EXCEPT ![r] = mwActive]
    /\ UNCHANGED <<mwActive, mwLang, mwMax>>
    /\ UNCHANGED nonMwVars

\* A CompareAndSwap that ignores the value loaded before: a plain Add(1).
CompareAndSwapBlind(r) ==
    /\ mwActive' = mwActive + 1
    /\ mwPc' = [mwPc EXCEPT ![r] = "serving"]

\* active.CompareAndSwap(cur, cur+1): on success break out of the loop
\* (defer active.Add(-1); next.ServeHTTP), otherwise load again.
CompareAndSwap(r) ==
    IF mwActive = mwCur[r]
    THEN /\ mwActive' = mwCur[r] + 1
         /\ mwPc' = [mwPc EXCEPT ![r] = "serving"]
    ELSE /\ mwPc' = [mwPc EXCEPT ![r] = "load"]
         /\ UNCHANGED mwActive

MWCas(r) ==
    /\ mwPc[r] = "cas"
    /\ CompareAndSwap(r)
    /\ mwCur' = [mwCur EXCEPT ![r] = 0]
    /\ UNCHANGED <<mwLang, mwMax>>
    /\ UNCHANGED nonMwVars

\* A decrement that every returning handler performs.
DeferredAddAlways(r) == mwActive - 1

\* defer active.Add(-1) is registered only in the branch of an admitted
\* claude request.
DeferredAdd(r) == IF mwLang[r] = "claude" THEN mwActive - 1 ELSE mwActive

\* next.ServeHTTP returns (or panics): the deferred active.Add(-1) of an
\* admitted claude request runs.
MWReturn(r) ==
    /\ mwPc[r] = "serving"
    /\ mwActive' = DeferredAdd(r)
    /\ mwPc' = [mwPc EXCEPT ![r] = "done"]
    /\ UNCHANGED <<mwCur, mwLang, mwMax>>
    /\ UNCHANGED nonMwVars

MWNext ==
    \/ \E r \in Reqs : MWArrive(r)
    \/ \E r \in Reqs : MWLoad(r)
    \/ \E r \in Reqs : MWCas(r)
    \/ \E r \in Reqs : MWReturn(r)

MWSpecInit ==
    /\ ExInit /\ TrIdle /\ RLInit /\ SSENew("stdout", <<>>) /\ PxNew("", 0)
    /\ AuthNew(<<>>, FALSE) /\ HdReceived(PlainRequest) /\ AuditInit
    /\ ServerStarted("docker", {})
    /\ NewServer(Burst, MaxClaude) /\ WorkDirReceived({}, <<>>) /\ LaunchRequested(LegacyRunner, BareRequest) /\ SeccompIdle /\ NewDockerRunner({}) /\ StreamIdle /\ WindowOver(0) /\ FlushNotCalled
    /\ \E m \in 0..MaxClaude : MWNew(m)

SpecMW == MWSpecInit /\ [][MWNext]_vars

\* ---------------------------------------------------------------- Spec
ExNext ==
    \/ \E e \in Execs : Execute(e)
    \/ \E e \in Execs : AcquireSlot(e)
    \/ \E e \in Execs : AcquireCancelled(e)
    \/ \E e \in Execs : CreateTempDir(e)
    \/ \E e \in Execs : WriteCode(e)
    \/ \E e \in Execs : PullImage(e)
    \/ \E e \in Execs : CreateContainer(e)
    \/ \E e \in Execs : NewTask(e)
    \/ \E e \in Execs : TaskWait(e)
    \/ \E e \in Execs : TaskStart(e)
    \/ \E e \in Execs : SelectExit(e)
    \/ \E e \in Execs : SelectDone(e)
    \/ \E e \in Execs : KillWait(e)
    \/ \E e \in Execs : WriteSeccomp(e)
    \/ \E e \in Execs : DockerRun(e)
    \/ \E e \in Execs : DockerWait(e)
    \/ \E e \in Execs : Cancel(e)
    \/ \E e \in Execs : Expire(e)
    \/ \E e \in Execs : WorkloadExit(e)
    \/ \E e \in Execs : Panic(e)
    \/ \E e \in Execs : Unwind(e)
    \/ \E e \in Execs : HandleExecute(e)
    \/ \E e \in Execs : writeJSON(e)
    \/ processLoop
    \/ cleanupOrphans

Next == ExNext

Spec == Init /\ [][Next]_vars

\* ------------------------------------------------------ truncateOutput
\* The caps the result is built with, and len("\n... [output truncated]").
StdoutMax == 1048576
StderrMax == 262144
MarkerLen == 23

\* Lengths of what a workload can have written to stdoutBuf / stderrBuf
\* (bytes.Buffer grows without bound): around each cap, and far above.
CapturedLens == {0, 1, StderrMax - 1, StderrMax, StderrMax + 1,
                 StdoutMax - 1, StdoutMax, StdoutMax + 1, 2 * StdoutMax}

\* truncateOutput(s, maxBytes) on len(s): s itself when it fits, otherwise
\* s[:maxBytes] followed by the marker.
truncateOutput(n, maxBytes) ==
    IF n <= maxBytes THEN n ELSE maxBytes + MarkerLen

\* return &ExecutionResult{Output: truncateOutput(stdoutBuf.String(), 1<<20),
\*                         Stderr: truncateOutput(stderrBuf.String(), 256*1024)}
BuildResult ==
    /\ trPc = "captured"
    /\ trRes' = [output |-> truncateOutput(trOut, StdoutMax),
                 stderr |-> truncateOutput(trErr, StderrMax)]
    /\ trPc' = "built"
    /\ UNCHANGED <<trOut, trErr>>
    /\ UNCHANGED nonTrVars

TrInit ==
    /\ ExInit /\ MWInit /\ RLInit /\ SSENew("stdout", <<>>) /\ PxNew("", 0)
    /\ AuthNew(<<>>, FALSE) /\ HdReceived(PlainRequest) /\ AuditInit
    /\ ServerStarted("docker", {})
    /\ NewServer(Burst, MaxClaude) /\ WorkDirReceived({}, <<>>) /\ LaunchRequested(LegacyRunner, BareRequest) /\ SeccompIdle /\ NewDockerRunner({}) /\ StreamIdle /\ WindowOver(0) /\ FlushNotCalled
    /\ trPc = "captured"
    /\ trOut \in CapturedLens
    /\ trErr \in CapturedLens
    /\ trRes = [output |-> 0, stderr |-> 0]

TrNext == BuildResult

SpecTrunc == TrInit /\ [][TrNext]_vars

\* ------------------------------------------------- RateLimitMiddleware
\* The ip whose admissions are measured against its rate.
Watched == CHOOSE ip \in IPs : TRUE

Min(a, b) == IF a <= b THEN a ELSE b

\* len(visitors) >= maxRateLimitVisitors
TableFull == Cardinality(DOMAIN visitors) >= MaxVisitors

\* An eviction loop that takes whatever entry the map iteration ends on.
OldestAny(vs) == DOMAIN vs

\* The entry the eviction loop ends on: one whose lastCheck no other entry
\* precedes (map iteration order decides among entries of equal lastCheck).
Oldest(vs) ==
    {k \in DOMAIN vs : \A j \in DOMAIN vs : vs[k].lastCheck <= vs[j].lastCheck}

\* elapsed := now.Sub(v.lastCheck); v.lastCheck = now;
\* v.tokens += elapsed * rps; if v.tokens > burst { v.tokens = burst }
Refilled(v, now) ==
    [tokens |-> Min(v.tokens + (now - v.lastCheck) * Refill, Burst),
     lastCheck |-> now]

\* The handler for a request from ip, under mu: an unseen ip is inserted
\* with a full bucket (after the eviction of the oldest entry when the
\* table is full); the bucket is refilled; with less than one token the
\* answer is 429, otherwise a token is taken and next.ServeHTTP runs.
RateLimit(ip) ==
    /\ \E victim \in (IF ip \notin DOMAIN visitors /\ TableFull
                       THEN Oldest(visitors) ELSE {0}) :
         LET kept == [k \in DOMAIN visitors \ {victim} |-> visitors[k]]
             v0 == IF ip \in DOMAIN visitors THEN visitors[ip]
                   ELSE [tokens |-> Burst, lastCheck |-> rlNow]
             v1 == Refilled(v0, rlNow)
             admitted == v1.tokens >= 1
             v2 == IF admitted THEN [v1 EXCEPT !.tokens = @ - 1] ELSE v1
         IN /\ visitors' = [k \in DOMAIN kept \cup {ip} |->
                               IF k = ip THEN v2 ELSE kept[k]]
            /\ rlEvicted' = victim
            /\ allowance' = IF admitted /\ ip = Watched /\ allowance >= 0
                            THEN allowance - 1 ELSE allowance
    /\ UNCHANGED rlNow
    /\ UNCHANGED nonRlVars

\* The cleanup goroutine's tick: entries idle for more than 5 minutes are
\* deleted.
RLCleanup ==
    /\ visitors' = [k \in {j \in DOMAIN visitors :
                              rlNow - visitors[j].lastCheck <= IdleTicks}
                     |-> visitors[k]]
    /\ UNCHANGED <<rlNow, rlEvicted, allowance>>
    /\ UNCHANGED nonRlVars

\* Time passes: the watched ip earns rps * elapsed further admissions, up
\* to burst.
RLTick ==
    /\ rlNow < MaxTime
    /\ rlNow' = rlNow + 1
    /\ allowance' = Min(allowance + Refill, Burst)
    /\ UNCHANGED <<visitors, rlEvicted>>
    /\ UNCHANGED nonRlVars

RLNext ==
    \/ \E ip \in IPs : RateLimit(ip)
    \/ RLCleanup
    \/ RLTick

SpecRL == Init /\ [][RLNext]_vars

\* ------------------------------------------------------------ SSEWriter
\* Bytes are modelled by tokens, each counted as one byte: an ordinary
\* byte, the line feed, the carriage return, and the texts "data: " and
\* "event: " when they occur in a workload's output.
SSEBytes == {"x", "LF", "CR", "data: ", "event: "}

SSEKinds == {"stdout", "stderr"}

\* All byte sequences of length at most n.
BytesUpTo(n) == UNION {[1..k -> SSEBytes] : k \in 0..n}

\* limit := maxSSEStdoutBytes; if event == "stderr" { limit = maxSSEStderrBytes }
SSELimit(kind) == IF kind = "stderr" THEN SSEStderrLimit ELSE SSEStdoutLimit

Take(q, n) == SubSeq(q, 1, n)
Drop(q, n) == SubSeq(q, n + 1, Len(q))

\* Index of the first element of q that is in S, 0 if there is none.
IndexOf(q, S) ==
    IF \E i \in DOMAIN q : q[i] \in S
    THEN CHOOSE i \in DOMAIN q : q[i] \in S /\ \A j \in 1..(i - 1) : q[j] \notin S
    ELSE 0

\* strings.Split(data, "\n")
RECURSIVE Split(_)
Split(q) ==
    LET i == IndexOf(q, {"LF"}) IN
    IF i = 0 THEN <<q>> ELSE <<Take(q, i - 1)>> \o Split(Drop(q, i))

\* for _, line := range lines { fmt.Fprintf(s.w, "data: %s\n", line) }
RECURSIVE DataLines(_)
DataLines(lines) ==
    IF lines = <<>> THEN <<>>
    ELSE <<"data: ">> \o Head(lines) \o <<"LF">> \o DataLines(Tail(lines))

\* What one Write sends: "event: <kind>\n", the data lines, "\n".
Frame(kind, data) ==
    <<"event: ", kind, "LF">> \o DataLines(Split(data)) \o <<"LF">>

\* data := p; if int64(len(data)) > remaining { data = data[:remaining] }
\* with the cut left out.
CutNot(p, remaining) == p

\* data := p; if int64(len(data)) > remaining { data = data[:remaining] }
Cut(p, remaining) == IF Len(p) > remaining THEN Take(p, remaining) ELSE p

\* SSEWriter.Write(p), p being the next k bytes of the workload's output.
\* A write to a broken connection fails: nothing reaches the client and
\* the error of the last Fprint is returned with n = 0.
SSEWrite ==
    /\ \E k \in 0..Len(ssePending) :
         LET p == Take(ssePending, k)
             data == Cut(p, SSELimit(sseKind) - sseWritten)
         IN /\ ssePending' = Drop(ssePending, k)
            /\ sseTaken' = sseTaken \o p
            /\ IF k = 0
               THEN /\ sseRet' = [p |-> 0, n |-> 0, err |-> "nil"]
                    /\ UNCHANGED <<sseWritten, sseFramed, sseOut, sseEmitted>>
               ELSE IF sseWritten >= SSELimit(sseKind)
               THEN /\ sseRet' = [p |-> k, n |-> k, err |-> "nil"]
                    /\ UNCHANGED <<sseWritten, sseFramed, sseOut, sseEmitted>>
               ELSE /\ sseWritten' = sseWritten + Len(data)
                    /\ sseFramed' = sseFramed \o data
                    /\ IF sseConn = "open"
                       THEN /\ sseOut' = sseOut \o Frame(sseKind, data)
                            /\ sseEmitted' = sseEmitted + 1
                            /\ sseRet' = [p |-> k, n |-> k, err |-> "nil"]
                       ELSE /\ sseRet' = [p |-> k, n |-> 0, err |-> "write"]
                            /\ UNCHANGED <<sseOut, sseEmitted>>
    /\ UNCHANGED <<sseKind, sseConn>>
    /\ UNCHANGED nonSseVars

\* The client goes away: writes to the ResponseWriter fail from now on.
SSEDisconnect ==
    /\ sseConn = "open"
    /\ sseConn' = "broken"
    /\ UNCHANGED <<sseKind, ssePending, sseTaken, sseWritten, sseFramed, sseOut,
                   sseEmitted, sseRet>>
    /\ UNCHANGED nonSseVars

SSEInit ==
    /\ ExInit /\ MWInit /\ TrIdle /\ RLInit /\ PxNew("", 0) /\ AuthNew(<<>>, FALSE)
    /\ HdReceived(PlainRequest) /\ AuditInit /\ ServerStarted("docker", {})
    /\ NewServer(Burst, MaxClaude) /\ WorkDirReceived({}, <<>>) /\ LaunchRequested(LegacyRunner, BareRequest) /\ SeccompIdle /\ NewDockerRunner({}) /\ StreamIdle /\ WindowOver(0) /\ FlushNotCalled
    /\ \E kind \in SSEKinds : \E b \in BytesUpTo(MaxSSELen) : SSENew(kind, b)

SSENext == SSEWrite \/ SSEDisconnect

SpecSSE == SSEInit /\ [][SSENext]_vars

\* ---------------------------------------- the client's event-stream parser
\* The lines of an event stream: a line ends at a line feed, at a carriage
\* return, or at a carriage return followed by a line feed; bytes after
\* the last line end are not a line yet.
RECURSIVE ParseLines(_)
ParseLines(q) ==
    LET i == IndexOf(q, {"LF", "CR"}) IN
    IF i = 0 THEN <<>>
    ELSE LET n == IF q[i] = "CR" /\ i < Len(q) /\ q[i + 1] = "LF" THEN i + 1 ELSE i
         IN <<Take(q, i - 1)>> \o ParseLines(Drop(q, n))

\* The events a client dispatches for the given lines: an "event" field
\* sets the type, a "data" field appends its value and a line feed to the
\* data buffer, any other line is ignored, and an empty line dispatches
\* the event (data buffer without its last line feed) unless the buffer is
\* empty.
RECURSIVE ParseEvents(_, _, _, _)
ParseEvents(lines, type, data, events) ==
    IF lines = <<>> THEN events
    ELSE LET l == Head(lines)
             rest == Tail(lines)
         IN IF l = <<>>
            THEN IF data = <<>> THEN ParseEvents(rest, <<>>, <<>>, events)
                 ELSE ParseEvents(rest, <<>>, <<>>,
                        Append(events,
                               [type |-> IF type = <<>> THEN <<"message">> ELSE type,
                                data |-> Take(data, Len(data) - 1)]))
            ELSE IF Head(l) = "event: " THEN ParseEvents(rest, Tail(l), data, events)
            ELSE IF Head(l) = "data: "
                 THEN ParseEvents(rest, type, data \o Tail(l) \o <<"LF">>, events)
            ELSE ParseEvents(rest, type, data, events)

Parse(q) == ParseEvents(ParseLines(q), <<>>, <<>>, <<>>)

\* The data of the events, concatenated.
RECURSIVE DataOf(_)
DataOf(events) ==
    IF events = <<>> THEN <<>> ELSE Head(events).data \o DataOf(Tail(events))

\* ------------------------------------------------------------ AuthProxy
\* The upstream token and the shared secret the proxy is configured with,
\* and a value that is neither.
Token == "real-token"
Secret == "my-secret"
Junk == "caller-junk"

\* Zero, one or two values of a header.
ValuesOf(S) == {<<>>} \cup {<<a>> : a \in S} \cup {<<a, b>> : a \in S, b \in S}

\* The requests a caller can send.
ProxyRequests ==
    [xApiKey : ValuesOf({Secret, Junk}),
     authorization : {<<>>, <<Junk>>},
     connection : SUBSET {"x-api-key", "authorization"}]

\* http.Header.Get: the first value of the header, "" if it has none.
Get(values) == IF values = <<>> THEN "" ELSE values[1]

\* A comparison that lets every presented value pass.
ConstantTimeCompareAny(presented, secret) == TRUE

\* subtle.ConstantTimeCompare([]byte(presented), []byte(ap.secret)) == 1
ConstantTimeCompare(presented, secret) == presented = secret

\* The Director installed by NewWithRPM: Del("x-api-key"),
\* Del("Authorization"), Set("x-api-key", ap.token).
Director(req) == [req EXCEPT !.xApiKey = <<Token>>, !.authorization = <<>>]

\* What httputil.ReverseProxy does to the outgoing request after Director
\* has returned: every header that the Connection header names is deleted
\* as hop-by-hop, and Connection itself.
RemoveHopByHopHeaders(req) ==
    [xApiKey |-> IF "x-api-key" \in req.connection THEN <<>> ELSE req.xApiKey,
     authorization |-> IF "authorization" \in req.connection THEN <<>>
                       ELSE req.authorization,
     connection |-> {}]

\* rp.ServeHTTP(w, r): the request as it is sent upstream.
ServeHTTP(req) == RemoveHopByHopHeaders(Director(req))

\* allowRequest that admits one request more than maxRPM per window.
allowRequestOneMore(now, start, count, maxRPM) ==
    IF now - start >= WindowSecs
    THEN [ok |-> TRUE, start |-> now, count |-> 1]
    ELSE [ok |-> count + 1 <= maxRPM + 1, start |-> start, count |-> count + 1]

\* allowRequest: a window that is over is replaced by one that starts now
\* with this request as its first; otherwise the request is counted and
\* allowed while the count is within maxRPM.
allowRequest(now, start, count, maxRPM) ==
    IF now - start >= WindowSecs
    THEN [ok |-> TRUE, start |-> now, count |-> 1]
    ELSE [ok |-> count + 1 <= maxRPM, start |-> start, count |-> count + 1]

\* The forward times that are less than one window old.
Recent(log, now) == SelectSeq(log, LAMBDA t : now - t < WindowSecs)

\* handleProxy for one request, requests being handled one at a time: 403
\* for a wrong secret, 429 when the RPM cap refuses, otherwise forwarded.
\* Requests beyond the second refusal in a window are not modelled.
HandleProxy ==
    /\ \E req \in ProxyRequests :
         IF pxSecret # "" /\ ~ConstantTimeCompare(Get(req.xApiKey), pxSecret)
         THEN /\ pxLast' = [presented |-> req.xApiKey, status |-> 403, out |-> NoHeaders]
              /\ UNCHANGED <<windowStart, windowCount, pxLog>>
         ELSE IF pxMaxRPM > 0
         THEN LET a == allowRequest(pxNow, windowStart, windowCount, pxMaxRPM) IN
              /\ a.count <= pxMaxRPM + 2
              /\ windowStart' = a.start
              /\ windowCount' = a.count
              /\ IF a.ok
                 THEN /\ pxLast' = [presented |-> req.xApiKey, status |-> 200, out |-> ServeHTTP(req)]
                      /\ pxLog' = Append(Recent(pxLog, pxNow), pxNow)
                 ELSE /\ pxLast' = [presented |-> req.xApiKey, status |-> 429, out |-> NoHeaders]
                      /\ UNCHANGED pxLog
         ELSE /\ pxLast' = [presented |-> req.xApiKey, status |-> 200, out |-> ServeHTTP(req)]
              /\ UNCHANGED <<windowStart, windowCount, pxLog>>
    /\ UNCHANGED <<pxSecret, pxMaxRPM, pxNow>>
    /\ UNCHANGED nonPxVars

\* The clock advances.
PxTick ==
    /\ pxNow < WindowSecs + MaxProxyTicks * TickSecs
    /\ pxNow' = pxNow + TickSecs
    /\ UNCHANGED <<pxSecret, pxMaxRPM, windowStart, windowCount, pxLog, pxLast>>
    /\ UNCHANGED nonPxVars

PxInit ==
    /\ Idle /\ AuthNew(<<>>, FALSE)
    /\ \E secret \in {"", Secret} : \E maxRPM \in {0, MaxRPM} : PxNew(secret, maxRPM)

PxNext == HandleProxy \/ PxTick

SpecProxy == PxInit /\ [][PxNext]_vars

\* ------------------------------------------------------- AuthMiddleware
\* Texts are sequences of parts: <<>> is the empty string, <<"good-key">>
\* a key, <<"Bearer ", "good-key">> the text "Bearer good-key".
GoodKey == <<"good-key">>
OtherKey == <<"other-key">>
BadKey == <<"bad-key">>

\* The configurations: no keys, only an empty key, one key, two keys.
AuthConfigs == {<<>>, <<<<>>>>, <<GoodKey>>, <<GoodKey, OtherKey>>}

\* The values a request gives its X-API-Key and Authorization headers
\* (<<>>: header absent or empty).
XApiKeyValues == {<<>>, GoodKey, OtherKey, BadKey}
AuthorizationValues ==
    {<<>>, <<"Bearer ">>} \cup {<<"Bearer ">> \o k : k \in {GoodKey, OtherKey, BadKey}}
    \cup {GoodKey, BadKey} \cup {<<"Basic ">> \o GoodKey}

\* keySet: the configured keys without the empty ones.
keySet(keys) == {keys[i] : i \in DOMAIN keys} \ {<<>>}

\* strings.TrimPrefix(s, "Bearer ")
TrimPrefix(t) == IF t # <<>> /\ Head(t) = "Bearer " THEN Tail(t) ELSE t

\* key := r.Header.Get("X-API-Key")
\* if key == "" { key = strings.TrimPrefix(r.Header.Get("Authorization"), "Bearer ") }
PresentedKey(x, a) == IF x = <<>> THEN TrimPrefix(a) ELSE x

\* The handler: TRUE when next.ServeHTTP is called, FALSE when the answer
\* is 401.
Authorized(keys, allow, x, a) ==
    IF keySet(keys) = {} THEN allow
    ELSE /\ PresentedKey(x, a) # <<>>
         /\ PresentedKey(x, a) \in keySet(keys)

AuthRequest ==
    /\ \E x \in XApiKeyValues : \E a \in AuthorizationValues :
         LET ok == Authorized(auKeys, auAllow, x, a) IN
         auLast' = [xApiKey |-> x, authorization |-> a,
                    status |-> IF ok THEN 200 ELSE 401, served |-> ok]
    /\ UNCHANGED <<auKeys, auAllow>>
    /\ UNCHANGED nonAuVars

AuthInit ==
    /\ Idle /\ PxNew("", 0)
    /\ \E keys \in AuthConfigs : \E allow \in BOOLEAN : AuthNew(keys, allow)

AuthNext == AuthRequest

SpecAuth == AuthInit /\ [][AuthNext]_vars

\* ----------------------------------- HandleExecute, HandleExecuteStream
\* Severity levels of the escape detector's patterns.
Severities == {"low", "medium", "high", "critical"}

\* What the backend returns when it is invoked: a result with a nil error,
\* a result with an error (timeout, oom), no result with a validation
\* error, no result with another error.
Outcomes == {"result", "result_err", "invalid", "failed"}

\* The requests by what the handlers read of them: the endpoint, whether
\* the body decodes and has language and code, the severities of the
\* detections AnalyzeCode finds in the code, the backend's outcome.
HandlerRequests ==
    [endpoint : {"/execute", "/execute/stream"},
     decoded : {"ok", "bad_json", "missing"},
     detections : SUBSET Severities,
     outcome : Outcomes]

Answer(status, code, invoked, recorded) ==
    [status |-> status, code |-> code, invoked |-> invoked, recorded |-> recorded]

\* Handlers.HandleExecute: the detections of AnalyzeCode are recorded as
\* metrics (one entry per severity here) and the backend is invoked.
HandleExecuteAnswer(req) ==
    IF req.decoded # "ok" THEN Answer(400, "INVALID_REQUEST", FALSE, 0)
    ELSE LET n == Cardinality(req.detections) IN
         CASE req.outcome = "invalid" -> Answer(400, "VALIDATION_ERROR", TRUE, n)
           [] req.outcome = "failed" -> Answer(500, "EXECUTION_FAILED", TRUE, n)
           [] OTHER -> Answer(200, "", TRUE, n)

\* Handlers.HandleExecuteStream: the detector is not consulted; once the
\* stream is open the answer is 200 with an error or a done event.
HandleExecuteStreamAnswer(req) ==
    IF req.decoded # "ok" THEN Answer(400, "INVALID_REQUEST", FALSE, 0)
    ELSE IF req.outcome \in {"invalid", "failed"}
         THEN Answer(200, "error", TRUE, 0)
         ELSE Answer(200, "done", TRUE, 0)

\* The router hands the request to its handler, which answers it.
Handle ==
    /\ hdPc = "received"
    /\ hdResp' = IF hdReq.endpoint = "/execute" THEN HandleExecuteAnswer(hdReq)
                 ELSE HandleExecuteStreamAnswer(hdReq)
    /\ hdPc' = "answered"
    /\ UNCHANGED hdReq
    /\ UNCHANGED nonHdVars

HdInit ==
    /\ ExInit /\ MWInit /\ TrIdle /\ RLInit /\ SSENew("stdout", <<>>)
    /\ PxNew("", 0) /\ AuthNew(<<>>, FALSE) /\ AuditInit
    /\ ServerStarted("docker", {})
    /\ NewServer(Burst, MaxClaude) /\ WorkDirReceived({}, <<>>) /\ LaunchRequested(LegacyRunner, BareRequest) /\ SeccompIdle /\ NewDockerRunner({}) /\ StreamIdle /\ WindowOver(0) /\ FlushNotCalled
    /\ \E req \in HandlerRequests : HdReceived(req)

HdNext == Handle

SpecHandler == HdInit /\ [][HdNext]_vars

\* ---------------------------------------------------------- AuditWriter
\* const maxRetries = 3, and the base of the backoff in milliseconds.
MaxRetries == 3
BackoffBaseMs == 100

\* A Log that waits for room is not modelled by a value: this one enqueues
\* without looking at the capacity.
LogSendAlways(ch, r) == [ch |-> Append(ch, r), fate |-> "queued"]

\* AuditWriter.Log: select { case w.ch <- exec: default: (warn, drop) }
LogSend(ch, r) ==
    IF Len(ch) < AuditBufferSize
    THEN [ch |-> Append(ch, r), fate |-> "queued"]
    ELSE [ch |-> ch, fate |-> "dropped"]

\* Handlers.logAudit for the result of request r.
AqLog(r) ==
    /\ aqReq[r] = "result"
    /\ aqCh' = LogSend(aqCh, r).ch
    /\ aqFate' = [aqFate EXCEPT ![r] = LogSend(aqCh, r).fate]
    /\ aqReq' = [aqReq EXCEPT ![r] = "logged"]
    /\ UNCHANGED <<aqResp, aqTried, awCur, awAttempt, awSlept>>
    /\ UNCHANGED nonAqVars

\* writeJSON(w, http.StatusOK, resp) after logAudit has returned.
AqRespond(r) ==
    /\ aqReq[r] = "logged"
    /\ aqResp' = [aqResp EXCEPT ![r] = 200]
    /\ aqReq' = [aqReq EXCEPT ![r] = "answered"]
    /\ UNCHANGED <<aqCh, aqFate, aqTried, awCur, awAttempt, awSlept>>
    /\ UNCHANGED nonAqVars

\* processLoop: case exec := <-w.ch; writeWithRetry(exec) starts with
\* attempt := 0.
AwDequeue ==
    /\ awCur = 0
    /\ aqCh # <<>>
    /\ awCur' = Head(aqCh)
    /\ aqCh' = Tail(aqCh)
    /\ awAttempt' = 0
    /\ awSlept' = <<>>
    /\ UNCHANGED <<aqReq, aqResp, aqFate, aqTried>>
    /\ UNCHANGED nonAqVars

\* A backoff that does not grow.
BackoffFlat(attempt) == BackoffBaseMs

\* time.Duration(math.Pow(2, float64(attempt))) * 100 * time.Millisecond
Backoff(attempt) == (2 ^ attempt) * BackoffBaseMs

\* One pass of writeWithRetry's loop body: LogExecution succeeds (return),
\* or fails and is followed by the backoff sleep while attempt < maxRetries,
\* or fails for the last time (logged; the loop ends).
AwAttempt ==
    /\ awCur # 0
    /\ aqTried' = [aqTried EXCEPT ![awCur] = @ + 1]
    /\ \E ok \in BOOLEAN :
         IF ok
         THEN /\ aqFate' = [aqFate EXCEPT ![awCur] = "written"]
              /\ awCur' = 0
              /\ UNCHANGED <<awAttempt, awSlept>>
         ELSE IF awAttempt < MaxRetries
         THEN /\ awSlept' = Append(awSlept, Backoff(awAttempt))
              /\ awAttempt' = awAttempt + 1
              /\ UNCHANGED <<aqFate, awCur>>
         ELSE /\ aqFate' = [aqFate EXCEPT ![awCur] = "abandoned"]
              /\ awCur' = 0
              /\ UNCHANGED <<awAttempt, awSlept>>
    /\ UNCHANGED <<aqCh, aqReq, aqResp>>
    /\ UNCHANGED nonAqVars

AqInit ==
    /\ ExInit /\ MWInit /\ TrIdle /\ RLInit /\ SSENew("stdout", <<>>)
    /\ PxNew("", 0) /\ AuthNew(<<>>, FALSE) /\ HdReceived(PlainRequest)
    /\ AuditInit /\ ServerStarted("docker", {})
    /\ NewServer(Burst, MaxClaude) /\ WorkDirReceived({}, <<>>) /\ LaunchRequested(LegacyRunner, BareRequest) /\ SeccompIdle /\ NewDockerRunner({}) /\ StreamIdle /\ WindowOver(0) /\ FlushNotCalled

AqNext ==
    \/ \E r \in AuditRecs : AqLog(r)
    \/ \E r \in AuditRecs : AqRespond(r)
    \/ AwDequeue
    \/ AwAttempt

SpecAudit == AqInit /\ [][AqNext]_vars

\* ------------------------------------------------- shutdown and reaper
\* time.NewTicker(5 * time.Minute) and time.After(30 * time.Second).
ReaperPeriodMin == 5
CloseTimeoutSecs == 30

\* Container names as sequences of segments.
ContainerNames == {<<"sandbox-", "a1">>, <<"postgres">>}

\* docker ps --filter name=sandbox- -q: docker's name filter matches the
\* text anywhere in the name.
Listed(present) == {n \in present : \E i \in DOMAIN n : n[i] = "sandbox-"}

\* cleanupOrphans: nothing when docker ps fails, otherwise docker rm -f on
\* every listed id.
cleanupOrphansPass(present, listOK) ==
    IF listOK THEN present \ Listed(present) ELSE present

\* The process is running: once main returns every goroutine is gone.
Alive == sdMain # "exited"

\* orphanCleanupLoop, its first statement: the pass on startup, then the
\* ticker is created.
RpStartup ==
    /\ Alive
    /\ rpPc = "spawned"
    /\ \E listOK \in BOOLEAN : rpPresent' = cleanupOrphansPass(rpPresent, listOK)
    /\ rpPasses' = rpPasses + 1
    /\ rpLate' = (rpLate \/ rpCancelled)
    /\ rpPc' = "waiting"
    /\ rpSince' = 0
    /\ UNCHANGED <<sdBackend, sdPc, sdMain, sdListening, sdInflight, sdElapsed,
                   sdCloseRet, sdLog, jnRunning, rpTick, rpCancelled>>
    /\ UNCHANGED nonSdVars

\* A minute passes for the ticker; at the period it sends on ticker.C,
\* whose buffer holds one tick.
RpMinute ==
    /\ Alive
    /\ rpPc = "waiting"
    /\ IF rpSince + 1 = ReaperPeriodMin
       THEN rpTick' = TRUE /\ rpSince' = 0
       ELSE rpSince' = rpSince + 1 /\ UNCHANGED rpTick
    /\ UNCHANGED <<sdBackend, sdPc, sdMain, sdListening, sdInflight, sdElapsed,
                   sdCloseRet, sdLog, jnRunning, rpPc, rpCancelled, rpPasses,
                   rpPresent, rpLate>>
    /\ UNCHANGED nonSdVars

\* select: case <-ticker.C: d.cleanupOrphans(). Chosen whenever a tick is
\* ready, whether or not ctx.Done() is ready too.
RpSelectTick ==
    /\ Alive
    /\ rpPc = "waiting"
    /\ rpTick
    /\ rpPasses < MaxPasses
    /\ rpTick' = FALSE
    /\ \E listOK \in BOOLEAN : rpPresent' = cleanupOrphansPass(rpPresent, listOK)
    /\ rpPasses' = rpPasses + 1
    /\ rpLate' = (rpLate \/ rpCancelled)
    /\ UNCHANGED <<sdBackend, sdPc, sdMain, sdListening, sdInflight, sdElapsed,
                   sdCloseRet, sdLog, jnRunning, rpPc, rpCancelled, rpSince>>
    /\ UNCHANGED nonSdVars

\* select: case <-ctx.Done(): return (the deferred ticker.Stop runs).
RpSelectDone ==
    /\ Alive
    /\ rpPc = "waiting"
    /\ rpCancelled
    /\ rpPc' = "stopped"
    /\ UNCHANGED <<sdBackend, sdPc, sdMain, sdListening, sdInflight, sdElapsed,
                   sdCloseRet, sdLog, jnRunning, rpTick, rpCancelled, rpPasses,
                   rpSince, rpPresent, rpLate>>
    /\ UNCHANGED nonSdVars

\* A container comes into being on the docker host.
ContainerAppear(n) ==
    /\ Alive
    /\ sdBackend = "docker"
    /\ n \notin rpPresent
    /\ rpPresent' = rpPresent \cup {n}
    /\ UNCHANGED <<sdBackend, sdPc, sdMain, sdListening, sdInflight, sdElapsed,
                   sdCloseRet, sdLog, jnRunning, rpPc, rpTick, rpCancelled,
                   rpPasses, rpSince, rpLate>>
    /\ UNCHANGED nonSdVars

\* A request reaches Execute: wg.Add(1).
ExecStart ==
    /\ Alive
    /\ sdListening
    /\ sdInflight < MaxInflight
    /\ sdInflight' = sdInflight + 1
    /\ UNCHANGED <<sdBackend, sdPc, sdMain, sdListening, sdElapsed, sdCloseRet,
                   sdLog, jnRunning, rpPc, rpTick, rpCancelled, rpPasses, rpSince,
                   rpPresent, rpLate>>
    /\ UNCHANGED nonSdVars

\* Execute returns: the deferred wg.Done().
ExecReturn ==
    /\ Alive
    /\ sdInflight > 0
    /\ sdInflight' = sdInflight - 1
    /\ UNCHANGED <<sdBackend, sdPc, sdMain, sdListening, sdElapsed, sdCloseRet,
                   sdLog, jnRunning, rpPc, rpTick, rpCancelled, rpPasses, rpSince,
                   rpPresent, rpLate>>
    /\ UNCHANGED nonSdVars

\* The shutdown goroutine receives the signal and calls server.Shutdown,
\* which closes the listener at once.
SdSignal ==
    /\ Alive
    /\ sdPc = "idle"
    /\ sdPc' = "http"
    /\ sdListening' = FALSE
    /\ sdLog' = Append(sdLog, "listener")
    /\ UNCHANGED <<sdBackend, sdMain, sdInflight, sdElapsed, sdCloseRet,
                   jnRunning, rpPc, rpTick, rpCancelled, rpPasses, rpSince,
                   rpPresent, rpLate>>
    /\ UNCHANGED nonSdVars

\* server.Shutdown returns: every handler has returned, or shutdownCtx
\* has expired.
SdShutdownReturns ==
    /\ Alive
    /\ sdPc = "http"
    /\ \E expired \in BOOLEAN : expired \/ sdInflight = 0
    /\ sdPc' = "close"
    /\ UNCHANGED <<sdBackend, sdMain, sdListening, sdInflight, sdElapsed,
                   sdCloseRet, sdLog, jnRunning, rpPc, rpTick, rpCancelled,
                   rpPasses, rpSince, rpPresent, rpLate>>
    /\ UNCHANGED nonSdVars

\* backend.Close(). Runner.Close sets closed and returns; DockerRunner.Close
\* sets closed, calls cancelCleanup and goes on to wait.
BackendClose ==
    /\ Alive
    /\ sdPc = "close"
    /\ IF sdBackend = "containerd"
       THEN /\ sdCloseRet' = "immediate"
            /\ sdPc' = "proxy"
            /\ UNCHANGED <<rpCancelled, sdLog>>
       ELSE /\ rpCancelled' = TRUE
            /\ sdLog' = Append(sdLog, "reaper")
            /\ sdPc' = "wait"
            /\ UNCHANGED sdCloseRet
    /\ sdElapsed' = 0
    /\ UNCHANGED <<sdBackend, sdMain, sdListening, sdInflight, jnRunning, rpPc,
                   rpTick, rpPasses, rpSince, rpPresent, rpLate>>
    /\ UNCHANGED nonSdVars

\* Time passes for DockerRunner.Close's time.After.
CloseTick ==
    /\ Alive
    /\ sdPc = "wait"
    /\ sdElapsed < CloseTimeoutSecs
    /\ sdElapsed' = sdElapsed + CloseTickSecs
    /\ UNCHANGED <<sdBackend, sdPc, sdMain, sdListening, sdInflight, sdCloseRet,
                   sdLog, jnRunning, rpPc, rpTick, rpCancelled, rpPasses, rpSince,
                   rpPresent, rpLate>>
    /\ UNCHANGED nonSdVars

\* DockerRunner.Close, select: case <-done (wg.Wait returned).
CloseDrained ==
    /\ Alive
    /\ sdPc = "wait"
    /\ sdInflight = 0
    /\ sdCloseRet' = "drained"
    /\ sdLog' = Append(sdLog, "drained")
    /\ sdPc' = "proxy"
    /\ UNCHANGED <<sdBackend, sdMain, sdListening, sdInflight, sdElapsed,
                   jnRunning, rpPc, rpTick, rpCancelled, rpPasses, rpSince,
                   rpPresent, rpLate>>
    /\ UNCHANGED nonSdVars

\* DockerRunner.Close, select: case <-time.After(30 * time.Second): a
\* warning with the active count, nothing else.
CloseTimedOut ==
    /\ Alive
    /\ sdPc = "wait"
    /\ sdElapsed >= CloseTimeoutSecs
    /\ sdCloseRet' = "timeout"
    /\ sdLog' = Append(sdLog, "gave_up")
    /\ sdPc' = "proxy"
    /\ UNCHANGED <<sdBackend, sdMain, sdListening, sdInflight, sdElapsed,
                   jnRunning, rpPc, rpTick, rpCancelled, rpPasses, rpSince,
                   rpPresent, rpLate>>
    /\ UNCHANGED nonSdVars

\* proxy.Close and cancel(): the shutdown goroutine ends.
SdFinish ==
    /\ Alive
    /\ sdPc = "proxy"
    /\ sdPc' = "done"
    /\ UNCHANGED <<sdBackend, sdMain, sdListening, sdInflight, sdElapsed,
                   sdCloseRet, sdLog, jnRunning, rpPc, rpTick, rpCancelled,
                   rpPasses, rpSince, rpPresent, rpLate>>
    /\ UNCHANGED nonSdVars

\* server.Start() returns http.ErrServerClosed in main as soon as
\* Shutdown has been called.
MainStartReturns ==
    /\ sdMain = "serving"
    /\ ~sdListening
    /\ sdMain' = "flush"
    /\ UNCHANGED <<sdBackend, sdPc, sdListening, sdInflight, sdElapsed,
                   sdCloseRet, sdLog, jnRunning, rpPc, rpTick, rpCancelled,
                   rpPasses, rpSince, rpPresent, rpLate>>
    /\ UNCHANGED nonSdVars

\* main returns: the deferred auditWriter.Flush(10 * time.Second),
\* db.Close() and cancel() run, and the process exits.
MainReturns ==
    /\ sdMain = "flush"
    /\ sdLog' = Append(sdLog, "flush")
    /\ sdMain' = "exited"
    /\ UNCHANGED <<sdBackend, sdPc, sdListening, sdInflight, sdElapsed,
                   sdCloseRet, jnRunning, rpPc, rpTick, rpCancelled, rpPasses,
                   rpSince, rpPresent, rpLate>>
    /\ UNCHANGED nonSdVars

SdInit ==
    /\ ExInit /\ MWInit /\ TrIdle /\ RLInit /\ SSENew("stdout", <<>>)
    /\ PxNew("", 0) /\ AuthNew(<<>>, FALSE) /\ HdReceived(PlainRequest)
    /\ AuditInit
    /\ \E b \in Backends : \E present \in SUBSET ContainerNames :
          ServerStarted(b, IF b = "docker" THEN present ELSE {})
    /\ NewServer(Burst, MaxClaude) /\ WorkDirReceived({}, <<>>) /\ LaunchRequested(LegacyRunner, BareRequest) /\ SeccompIdle /\ NewDockerRunner({}) /\ StreamIdle /\ WindowOver(0) /\ FlushNotCalled

SdNext ==
    \/ RpStartup
    \/ RpMinute
    \/ RpSelectTick
    \/ RpSelectDone
    \/ \E n \in ContainerNames : ContainerAppear(n)
    \/ ExecStart
    \/ ExecReturn
    \/ SdSignal
    \/ SdShutdownReturns
    \/ BackendClose
    \/ CloseTick
    \/ CloseDrained
    \/ CloseTimedOut
    \/ SdFinish
    \/ MainStartReturns
    \/ MainReturns

SpecShutdown == SdInit /\ [][SdNext]_vars

\* ------------------------------------------------------ middleware chain
\* The requests the chain is driven with.
ChainRequest(path, oversize, language, authed) ==
    [path |-> path, oversize |-> oversize, language |-> language,
     authed |-> authed]
ChainRequests ==
    {ChainRequest("/health", FALSE, "", FALSE),
     ChainRequest("/executions", FALSE, "", TRUE),
     ChainRequest("/executions", FALSE, "", FALSE),
     ChainRequest("/execute", FALSE, "python", TRUE),
     ChainRequest("/execute", FALSE, "claude", TRUE),
     ChainRequest("/execute", FALSE, "claude", FALSE),
     ChainRequest("/execute", TRUE, "claude", TRUE)}

Reverse(seq) == [i \in 1..Len(seq) |-> seq[Len(seq) + 1 - i]]

\* The wrapping with the rate limiter applied before the agent-class cap,
\* which puts the cap outside it.
WrappedCapOutside ==
    <<"MetricsMiddleware", "RateLimitMiddleware", "ConcurrentClaudeMiddleware",
      "MaxBodyMiddleware", "SecurityHeadersMiddleware", "LoggingMiddleware",
      "RequestIDMiddleware", "RecoveryMiddleware">>

\* handler = X(handler), in the order of the statements of NewServer: each
\* one wraps what the earlier ones built.
Wrapped ==
    <<"ConcurrentClaudeMiddleware", "MetricsMiddleware", "RateLimitMiddleware",
      "MaxBodyMiddleware", "SecurityHeadersMiddleware", "LoggingMiddleware",
      "RequestIDMiddleware", "RecoveryMiddleware">>

\* The middleware as a request meets them: the last one applied first.
Outer == Reverse(Wrapped)

\* The paths the top-level mux serves itself; every other path goes to
\* authedAPI.
Bypass == {"/health", "/metrics"}

\* A client sends a request.
ChArrive(r) ==
    /\ chPc[r] = "idle"
    /\ \E req \in ChainRequests : chReq' = [chReq EXCEPT ![r] = req]
    /\ chPc' = [chPc EXCEPT ![r] = "in"]
    /\ chAt' = [chAt EXCEPT ![r] = 1]
    /\ UNCHANGED <<chTrace, chRejectedBy, chTokens, chInflight, chActive, chMax,
                   chHandled>>
    /\ UNCHANGED nonChVars

\* The stage st answers r itself and does not call next.
ChReject(r, st) ==
    /\ chRejectedBy' = [chRejectedBy EXCEPT ![r] = st]
    /\ chPc' = [chPc EXCEPT ![r] = "rejected"]
    /\ UNCHANGED chAt

\* The stage calls next.ServeHTTP.
ChPass(r) ==
    /\ chAt' = [chAt EXCEPT ![r] = @ + 1]
    /\ UNCHANGED <<chRejectedBy, chPc>>

\* The middleware at position chAt[r] serves r, up to its call of next or
\* its own answer.
\*   RateLimitMiddleware: 429 when the bucket holds less than one token,
\*     otherwise one token is taken.
\*   MetricsMiddleware: RequestsInFlight.Inc().
\*   ConcurrentClaudeMiddleware: other paths pass; the body is read (400
\*     when MaxBytesReader cuts it); a claude request is answered 429 at the
\*     cap, otherwise counted.
\*   The others set headers, wrap the writer or the body, and pass.
ChServe(r) ==
    /\ chPc[r] = "in"
    /\ chAt[r] \in DOMAIN Outer
    /\ LET st == Outer[chAt[r]]
           req == chReq[r]
       IN /\ chTrace' = [chTrace EXCEPT ![r] = Append(@, st)]
          /\ CASE st = "RateLimitMiddleware" ->
                    /\ IF chTokens < 1
                       THEN ChReject(r, st) /\ UNCHANGED chTokens
                       ELSE ChPass(r) /\ chTokens' = chTokens - 1
                    /\ UNCHANGED <<chInflight, chActive>>
               [] st = "MetricsMiddleware" ->
                    /\ ChPass(r)
                    /\ chInflight' = chInflight + 1
                    /\ UNCHANGED <<chTokens, chActive>>
               [] st = "ConcurrentClaudeMiddleware" ->
                    /\ IF req.path # "/execute"
                       THEN ChPass(r) /\ UNCHANGED chActive
                       ELSE IF req.oversize
                       THEN ChReject(r, st) /\ UNCHANGED chActive
                       ELSE IF req.language # "claude"
                       THEN ChPass(r) /\ UNCHANGED chActive
                       ELSE IF chActive >= chMax
                       THEN ChReject(r, st) /\ UNCHANGED chActive
                       ELSE ChPass(r) /\ chActive' = chActive + 1
                    /\ UNCHANGED <<chTokens, chInflight>>
               [] OTHER ->
                    /\ ChPass(r)
                    /\ UNCHANGED <<chTokens, chInflight, chActive>>
    /\ UNCHANGED <<chReq, chMax, chHandled>>
    /\ UNCHANGED nonChVars

\* mux.ServeHTTP: GET /health and GET /metrics have handlers of their own,
\* "/" is authedAPI.
ChMux(r) ==
    /\ chPc[r] = "in"
    /\ chAt[r] = Len(Outer) + 1
    /\ IF chReq[r].path \in Bypass
       THEN /\ chTrace' = [chTrace EXCEPT ![r] = Append(@, "router")]
            /\ chHandled' = chHandled \cup {r}
            /\ chPc' = [chPc EXCEPT ![r] = "handled"]
            /\ UNCHANGED chAt
       ELSE /\ chAt' = [chAt EXCEPT ![r] = @ + 1]
            /\ UNCHANGED <<chTrace, chHandled, chPc>>
    /\ UNCHANGED <<chReq, chRejectedBy, chTokens, chInflight, chActive, chMax>>
    /\ UNCHANGED nonChVars

\* AuthMiddleware: 401 without an accepted key, otherwise next.
ChAuth(r) ==
    /\ chPc[r] = "in"
    /\ chAt[r] = Len(Outer) + 2
    /\ chTrace' = [chTrace EXCEPT ![r] = Append(@, "AuthMiddleware")]
    /\ IF chReq[r].authed
       THEN ChPass(r)
       ELSE ChReject(r, "AuthMiddleware")
    /\ UNCHANGED <<chReq, chTokens, chInflight, chActive, chMax, chHandled>>
    /\ UNCHANGED nonChVars

\* apiMux.ServeHTTP: the handler of the route runs.
ChRoute(r) ==
    /\ chPc[r] = "in"
    /\ chAt[r] = Len(Outer) + 3
    /\ chTrace' = [chTrace EXCEPT ![r] = Append(@, "router")]
    /\ chHandled' = chHandled \cup {r}
    /\ chPc' = [chPc EXCEPT ![r] = "handled"]
    /\ UNCHANGED <<chReq, chAt, chRejectedBy, chTokens, chInflight, chActive,
                   chMax>>
    /\ UNCHANGED nonChVars

\* r took a slot of the agent class: its `defer active.Add(-1)` is pending.
ChHolds(r) ==
    /\ "ConcurrentClaudeMiddleware" \in Range(chTrace[r])
    /\ chRejectedBy[r] # "ConcurrentClaudeMiddleware"
    /\ chReq[r].path = "/execute"
    /\ chReq[r].language = "claude"

\* The calls return outwards and the deferred calls of the stages that
\* were entered run: active.Add(-1), RequestsInFlight.Dec().
ChReturn(r) ==
    /\ chPc[r] \in {"rejected", "handled"}
    /\ chPc' = [chPc EXCEPT ![r] = "done"]
    /\ chActive' = IF ChHolds(r) THEN chActive - 1 ELSE chActive
    /\ chInflight' = IF "MetricsMiddleware" \in Range(chTrace[r])
                     THEN chInflight - 1 ELSE chInflight
    /\ UNCHANGED <<chReq, chAt, chTrace, chRejectedBy, chTokens, chMax, chHandled>>
    /\ UNCHANGED nonChVars

ChInit ==
    /\ ExInit /\ MWInit /\ TrIdle /\ RLInit /\ SSENew("stdout", <<>>)
    /\ PxNew("", 0) /\ AuthNew(<<>>, FALSE) /\ HdReceived(PlainRequest)
    /\ AuditInit /\ ServerStarted("docker", {})
    /\ \E tokens \in 0..Burst : \E m \in 0..MaxClaude : NewServer(tokens, m)
    /\ WorkDirReceived({}, <<>>) /\ LaunchRequested(LegacyRunner, BareRequest) /\ SeccompIdle /\ NewDockerRunner({}) /\ StreamIdle /\ WindowOver(0) /\ FlushNotCalled

ChNext ==
    \/ \E r \in ChainReqs : ChArrive(r)
    \/ \E r \in ChainReqs : ChServe(r)
    \/ \E r \in ChainReqs : ChMux(r)
    \/ \E r \in ChainReqs : ChAuth(r)
    \/ \E r \in ChainReqs : ChRoute(r)
    \/ \E r \in ChainReqs : ChReturn(r)

SpecChain == ChInit /\ [][ChNext]_vars

\* ------------------------------------------------- work_dir validation
\* Paths are strings, written as sequences of pieces: "/" and pieces of
\* names, so that /home/u is a string prefix of /home/u2.
Slash == <<"/">>

sensitivePathPrefixes == {<<"/", "etc">>, <<"/", "var">>, <<"/", "root">>}
sensitiveHomeDirs == {<<".ssh">>, <<".aws">>, <<".gnupg">>, <<".claude">>}

\* The host's file system: directories, plain files and symbolic links
\* with their targets.
Dirs ==
    {<<"/", "home", "/", "u", "/", "proj">>,
     <<"/", "home", "/", "u", "/", "proj", "/", ".ssh", "x">>,
     <<"/", "home", "/", "u", "2">>,
     <<"/", "home", "/", "u", "/", ".ssh">>,
     <<"/", "home", "/", "u", "/", ".aws", "/", "cache">>,
     <<"/", "etc">>,
     <<"/", "etc", "/", "ssl">>,
     <<"/", "var", "/", "lib", "/", "sb">>,
     <<"/", "root">>,
     <<"/", "srv", "/", "data">>,
     <<".ssh">>}
Files == {<<"/", "home", "/", "u", "/", "proj", "/", "main.py">>}
Links ==
    [p \in {<<"/", "home", "/", "u", "/", "proj", "/", "cfg">>,
            <<"/", "home", "/", "u", "/", "proj", "/", "keys">>,
            <<"/", "srv", "/", "ok">>,
            <<"/", "srv", "/", "ok2">>} |->
       CASE p = <<"/", "home", "/", "u", "/", "proj", "/", "cfg">> ->
               <<"/", "etc", "/", "ssl">>
         [] p = <<"/", "home", "/", "u", "/", "proj", "/", "keys">> ->
               <<"/", "home", "/", "u", "/", ".ssh">>
         [] p = <<"/", "srv", "/", "ok2">> -> <<"/", "srv", "/", "ok">>
         [] OTHER -> <<"/", "home", "/", "u", "/", "proj">>]

\* The values of req.WorkDir: none, what the file system holds, and a path
\* that does not exist.
WorkDirs ==
    {<<>>, <<"/", "home", "/", "u", "/", "nope">>}
        \cup Dirs \cup Files \cup DOMAIN Links

\* The entries allowed_workdir_roots is drawn from (Config.Validate
\* accepts absolute paths only).
RootChoices ==
    {<<"/", "home", "/", "u">>, <<"/", "var", "/", "lib">>, <<"/", "srv", "/">>,
     <<"/">>}

HasPrefix(str, prefix) ==
    Len(prefix) <= Len(str) /\ SubSeq(str, 1, Len(prefix)) = prefix
HasSuffix(str, suffix) ==
    Len(suffix) <= Len(str)
      /\ SubSeq(str, Len(str) - Len(suffix) + 1, Len(str)) = suffix
Contains(str, substr) ==
    \E i \in 0..(Len(str) - Len(substr)) :
        SubSeq(str, i + 1, i + Len(substr)) = substr

\* What a path names once every link on the way is followed.
RECURSIVE Resolve(_)
Resolve(path) == IF path \in DOMAIN Links THEN Resolve(Links[path]) ELSE path

\* A resolution that follows the first link only.
EvalSymlinksOnce(path) ==
    LET real == IF path \in DOMAIN Links THEN Links[path] ELSE path
    IN [err |-> Resolve(real) \notin Dirs \cup Files, path |-> real]

\* filepath.EvalSymlinks: the path with its links followed, an error when
\* nothing is there.
EvalSymlinks(path) ==
    [err |-> Resolve(path) \notin Dirs \cup Files, path |-> Resolve(path)]

\* A test that takes any string that begins with the prefix.
UnderLoose(realPath, prefix) == HasPrefix(realPath, prefix)

\* strings.HasPrefix(realPath, prefix+"/") || realPath == prefix
Under(realPath, prefix) ==
    HasPrefix(realPath, prefix \o Slash) \/ realPath = prefix

\* strings.Contains(realPath, "/"+dir+"/") || strings.HasSuffix(realPath, "/"+dir)
HasSensitiveDir(realPath, dir) ==
    \/ Contains(realPath, Slash \o dir \o Slash)
    \/ HasSuffix(realPath, Slash \o dir)

\* validateRequest, the part on req.WorkDir: the error it returns ("nil":
\* none) and the path it stores back into req.
validateWorkDir(roots, workDir) ==
    LET real == EvalSymlinks(workDir) IN
    IF workDir = <<>> THEN [err |-> "nil", workDir |-> workDir]
    ELSE IF real.err THEN [err |-> "not valid", workDir |-> workDir]
    ELSE IF Resolve(real.path) \notin Dirs
    THEN [err |-> "not a valid directory", workDir |-> workDir]
    ELSE IF \E prefix \in sensitivePathPrefixes : Under(real.path, prefix)
    THEN [err |-> "under a sensitive path", workDir |-> real.path]
    ELSE IF \E dir \in sensitiveHomeDirs : HasSensitiveDir(real.path, dir)
    THEN [err |-> "contains sensitive directory", workDir |-> real.path]
    ELSE IF roots = {} THEN [err |-> "no allowed roots", workDir |-> real.path]
    ELSE IF \E root \in roots : Under(real.path, root)
    THEN [err |-> "nil", workDir |-> real.path]
    ELSE [err |-> "not under an allowed root", workDir |-> real.path]

\* DockerRunner.validateRequest is called on the request.
WdValidate ==
    /\ wdPc = "received"
    /\ wdErr' = validateWorkDir(wdRoots, wdReq).err
    /\ wdReal' = validateWorkDir(wdRoots, wdReq).workDir
    /\ wdPc' = "validated"
    /\ UNCHANGED <<wdRoots, wdReq>>
    /\ UNCHANGED nonWdVars

\* DockerRunner.validateRequest is called once more, on the request as the
\* first call left it.
WdValidateAgain ==
    /\ wdPc = "validated"
    /\ wdErr' = validateWorkDir(wdRoots, wdReal).err
    /\ wdReal' = validateWorkDir(wdRoots, wdReal).workDir
    /\ wdPc' = "revalidated"
    /\ UNCHANGED <<wdRoots, wdReq>>
    /\ UNCHANGED nonWdVars

WdInit ==
    /\ ExInit /\ MWInit /\ TrIdle /\ RLInit /\ SSENew("stdout", <<>>)
    /\ PxNew("", 0) /\ AuthNew(<<>>, FALSE) /\ HdReceived(PlainRequest)
    /\ AuditInit /\ ServerStarted("docker", {}) /\ NewServer(Burst, MaxClaude)
    /\ \E roots \in SUBSET RootChoices : \E workDir \in WorkDirs :
          WorkDirReceived(roots, workDir)
    /\ LaunchRequested(LegacyRunner, BareRequest) /\ SeccompIdle /\ NewDockerRunner({}) /\ StreamIdle /\ WindowOver(0) /\ FlushNotCalled

WdNext == WdValidate \/ WdValidateAgain

SpecWorkDir == WdInit /\ [][WdNext]_vars

\* ------------------------------------------------------------------------
\* SpecArgs: DockerRunner.executeInternal from validateRequest to cmd.Run:
\* the env_vars check, the files written to hostDir, and the arguments
\* buildDockerArgs hands to the docker command.  A string the code inspects
\* byte by byte (an env_vars entry) is a sequence of one-character strings;
\* every argument is a tuple whose parts are concatenated.  Code, timeout
\* and limits of the request are valid throughout.

MaxEnvVars == 2
ProxyPort == 8081

Lower == <<"a", "b", "c", "d", "e", "f", "g", "h", "i", "j", "k", "l", "m",
           "n", "o", "p", "q", "r", "s", "t", "u", "v", "w", "x", "y", "z">>
Upper == <<"A", "B", "C", "D", "E", "F", "G", "H", "I", "J", "K", "L", "M",
           "N", "O", "P", "Q", "R", "S", "T", "U", "V", "W", "X", "Y", "Z">>
Digits == {"0", "1", "2", "3", "4", "5", "6", "7", "8", "9"}

\* The bytes the key loop of validateRequest lets through.
KeyChars == Range(Lower) \cup Range(Upper) \cup Digits \cup {"_"}

\* strings.ToUpper
ToUpper(str) ==
    [i \in DOMAIN str |->
        IF \E k \in DOMAIN Lower : Lower[k] = str[i]
        THEN Upper[CHOOSE k \in DOMAIN Lower : Lower[k] = str[i]]
        ELSE str[i]]

envBlocklist ==
    {<<"L", "D", "_", "P", "R", "E", "L", "O", "A", "D">>,
     <<"L", "D", "_", "L", "I", "B", "R", "A", "R", "Y", "_", "P", "A", "T", "H">>,
     <<"H", "T", "T", "P", "_", "P", "R", "O", "X", "Y">>,
     <<"H", "T", "T", "P", "S", "_", "P", "R", "O", "X", "Y">>,
     <<"N", "O", "D", "E", "_", "O", "P", "T", "I", "O", "N", "S">>,
     <<"P", "Y", "T", "H", "O", "N", "P", "A", "T", "H">>,
     <<"P", "A", "T", "H">>,
     <<"H", "O", "M", "E">>,
     <<"U", "S", "E", "R">>}

\* The env_vars entries a client sends.
EnvEntries ==
    {<<"M", "Y", "_", "1", "=", "h", "i">>,
     <<"N", "O", "E", "Q">>,
     <<"P", "A", "T", "H", "=", "/", "x">>,
     <<"H", "o", "m", "e", "=">>,
     <<"A", ";", "B", "=", "v">>,
     <<"=", "v">>,
     <<"A", "=", "b", "=", "c">>}

\* strings.Index(env, "="), counted from 1; 0 when there is none.
IndexEq(env) ==
    IF \E i \in DOMAIN env : env[i] = "="
    THEN CHOOSE i \in DOMAIN env :
            env[i] = "=" /\ \A j \in 1..(i - 1) : env[j] # "="
    ELSE 0

\* The body of validateRequest's loop over req.EnvVars for one entry:
\* "nil" or the error it returns.
CheckEnv(env) ==
    LET key == SubSeq(env, 1, IndexEq(env) - 1) IN
    IF IndexEq(env) = 0 THEN "must be KEY=VALUE format"
    ELSE IF \E i \in DOMAIN key : key[i] \notin KeyChars
    THEN "key contains invalid characters"
    ELSE IF ToUpper(key) \in envBlocklist THEN "blocked for security reasons"
    ELSE "nil"

\* validateRequest, the loop over req.EnvVars: it returns at the first
\* entry with an error.
ValidateEnvVars(envVars) ==
    IF \E i \in DOMAIN envVars : CheckEnv(envVars[i]) # "nil"
    THEN CheckEnv(envVars[CHOOSE i \in DOMAIN envVars :
                     /\ CheckEnv(envVars[i]) # "nil"
                     /\ \A j \in 1..(i - 1) : CheckEnv(envVars[j]) = "nil"])
    ELSE "nil"

IsClaude(req) == req.language = "claude"

\* d.validateRequest(&req) at the head of executeInternal.
DaValidate ==
    /\ daPc = "requested"
    /\ daPc' = IF ValidateEnvVars(daReq.envVars) = "nil" THEN "validated"
               ELSE "rejected"
    /\ UNCHANGED <<daRunner, daReq, daFiles, daArgs, daEnv>>
    /\ UNCHANGED nonDaVars

\* os.MkdirTemp, os.WriteFile(codeFile), os.Chmod.
DaWriteCode ==
    /\ daPc = "validated"
    /\ daFiles' = {<<"code", "code">>}
    /\ daPc' = "coded"
    /\ UNCHANGED <<daRunner, daReq, daArgs, daEnv>>
    /\ UNCHANGED nonDaVars

\* A runner that writes the token file for every claude request.
TokenFileWantedAlways(runner, req) == IsClaude(req)

\* isClaude && d.proxyPort == 0
TokenFileWanted(runner, req) == IsClaude(req) /\ runner.proxyPort = 0

\* The first of CLAUDE_CODE_OAUTH_TOKEN, ANTHROPIC_API_KEY that is set in
\* the host's environment, "" when neither is.
HostToken(runner) ==
    IF runner.env.CLAUDE_CODE_OAUTH_TOKEN # ""
    THEN runner.env.CLAUDE_CODE_OAUTH_TOKEN
    ELSE runner.env.ANTHROPIC_API_KEY

\* The token block of executeInternal: write hostDir/auth_token.
DaWriteToken ==
    /\ daPc = "coded"
    /\ daFiles' = IF TokenFileWanted(daRunner, daReq) /\ HostToken(daRunner) # ""
                  THEN daFiles \cup {<<"auth_token", HostToken(daRunner)>>}
                  ELSE daFiles
    /\ daPc' = "tokened"
    /\ UNCHANGED <<daRunner, daReq, daArgs, daEnv>>
    /\ UNCHANGED nonDaVars

\* A runner that picks the profile from the request's flag alone.
SeccompVariantByFlag(req) ==
    IF req.networkEnabled THEN "DockerNetworkProfileJSON"
    ELSE "DockerProfileJSON"

\* if isClaude || req.NetworkEnabled { DockerNetworkProfileJSON } else
\* { DockerProfileJSON }
SeccompVariant(req) ==
    IF IsClaude(req) \/ req.networkEnabled THEN "DockerNetworkProfileJSON"
    ELSE "DockerProfileJSON"

\* The seccomp block of executeInternal: write hostDir/seccomp.json.
DaWriteSeccomp ==
    /\ daPc = "tokened"
    /\ daFiles' = daFiles \cup {<<"seccomp.json", SeccompVariant(daReq)>>}
    /\ daPc' = "profiled"
    /\ UNCHANGED <<daRunner, daReq, daArgs, daEnv>>
    /\ UNCHANGED nonDaVars

FileNames(files) == {f[1] : f \in files}

\* buildDockerArgs
buildDockerArgs(runner, req, files) ==
    LET isClaude == IsClaude(req)
        network == IF req.networkEnabled \/ isClaude THEN "bridge" ELSE "none"
        user == IF isClaude THEN "1000:1000" ELSE "65534:65534"
        home == IF isClaude THEN "/home/node" ELSE "/tmp"
        base == << <<"run">>, <<"--rm">>,
                   <<"--name">>, <<"sandbox-", "execID">>,
                   <<"--network">>, <<network>>,
                   <<"--cap-drop">>, <<"ALL">>,
                   <<"--security-opt">>, <<"no-new-privileges">>,
                   <<"--security-opt">>, <<"seccomp=", "hostDir/", "seccomp.json">>,
                   <<"--memory">>, <<"limits">>,
                   <<"--memory-swap">>, <<"limits">>,
                   <<"--pids-limit">>, <<"limits">>,
                   <<"--cpus">>, <<"limits">>,
                   <<"--tmpfs">>, <<"/tmp:rw,nosuid,nodev,size=", "limits">>,
                   <<"-v">>, <<"hostDir/", "code", ":", "containerCodePath", ":ro">>,
                   <<"--user">>, <<user>>,
                   <<"-e">>, <<"HOME=", home>>,
                   <<"-e">>, <<"LANG=", "C.UTF-8">>,
                   <<"-e">>, <<"SANDBOX=", "true">> >>
        readOnly == IF isClaude THEN <<>> ELSE << <<"--read-only">> >>
        workDir == IF isClaude /\ req.workDir # ""
                   THEN << <<"-v">>, <<req.workDir, ":/workspace:rw">> >>
                   ELSE <<>>
        auth == IF ~isClaude THEN <<>>
                ELSE IF runner.proxyPort > 0
                THEN << <<"--add-host">>, <<"host.docker.internal:host-gateway">>,
                        <<"-e">>, <<"ANTHROPIC_BASE_URL=",
                                    "http://host.docker.internal:", "proxyPort">>,
                        <<"-e">>, <<"ANTHROPIC_API_KEY=", runner.proxySecret>> >>
                ELSE IF "auth_token" \in FileNames(files)
                THEN << <<"-v">>, <<"hostDir/", "auth_token",
                                    ":/run/secrets/auth_token:ro">> >>
                ELSE <<>>
        envs == [i \in 1..(2 * Len(req.envVars)) |->
                    IF i % 2 = 1 THEN <<"-e">> ELSE req.envVars[i \div 2]]
    IN base \o readOnly \o workDir \o auth \o envs
          \o << <<"image", req.language>>, <<"command", req.language>> >>

\* args := d.buildDockerArgs(...)
DaBuildArgs ==
    /\ daPc = "profiled"
    /\ daArgs' = buildDockerArgs(daRunner, daReq, daFiles)
    /\ daPc' = "built"
    /\ UNCHANGED <<daRunner, daReq, daFiles, daEnv>>
    /\ UNCHANGED nonDaVars

\* The values that follow a flag in the arguments.
ArgsOf(args, flag) ==
    {args[i + 1] : i \in {j \in 1..(Len(args) - 1) : args[j] = <<flag>>}}

\* cmd.Run(): docker starts the container with the environment its -e
\* arguments give it.
DaRun ==
    /\ daPc = "built"
    /\ daEnv' = ArgsOf(daArgs, "-e")
    /\ daPc' = "started"
    /\ UNCHANGED <<daRunner, daReq, daFiles, daArgs>>
    /\ UNCHANGED nonDaVars

\* The runners NewDockerRunner builds: without the auth proxy, and with it
\* and the secret main generated; on a host with either token set or not.
OAuthToken == "oauth-token"
ApiKeyToken == "api-key-token"
StartupSecret == "startup-secret"
Runners ==
    {[proxyPort |-> p[1], proxySecret |-> p[2],
      env |-> [CLAUDE_CODE_OAUTH_TOKEN |-> o, ANTHROPIC_API_KEY |-> a]] :
        p \in {<<0, "">>, <<ProxyPort, StartupSecret>>},
        o \in {"", OAuthToken}, a \in {"", ApiKeyToken}}

SeqsUpTo(S, n) == UNION {[1..k -> S] : k \in 0..n}

LaunchRequests ==
    [language : {"python", "claude"}, networkEnabled : BOOLEAN,
     workDir : {"", "/srv/w"}, envVars : SeqsUpTo(EnvEntries, MaxEnvVars)]

DaInit ==
    /\ ExInit /\ MWInit /\ TrIdle /\ RLInit /\ SSENew("stdout", <<>>)
    /\ PxNew("", 0) /\ AuthNew(<<>>, FALSE) /\ HdReceived(PlainRequest)
    /\ AuditInit /\ ServerStarted("docker", {}) /\ NewServer(Burst, MaxClaude)
    /\ WorkDirReceived({}, <<>>)
    /\ \E runner \in Runners : \E req \in LaunchRequests :
          LaunchRequested(runner, req)
    /\ SeccompIdle /\ NewDockerRunner({}) /\ StreamIdle /\ WindowOver(0) /\ FlushNotCalled

DaNext ==
    \/ DaValidate
    \/ DaWriteCode
    \/ DaWriteToken
    \/ DaWriteSeccomp
    \/ DaBuildArgs
    \/ DaRun

SpecArgs == DaInit /\ [][DaNext]_vars

\* ------------------------------------------------------------------------
\* SpecSeccomp: the two emitted profiles as ProfileBuilder builds them,
\* profileToDockerJSON's rendering of them, and what the kernel filter of
\* either form answers to a system call.  The OCI structure is written in
\* the vocabulary of specs-go (ActAllow, ArchX86_64, OpEqualTo), the
\* rendered profile in the strings of the Docker format.  Each rule keeps
\* the first names of its group.

\* ProfileBuilder
NewBuilder ==
    [DefaultAction |-> "ActErrno",
     Architectures |-> <<"ArchX86_64", "ArchAARCH64">>,
     Syscalls |-> <<>>]

Rule(names, action, args) == [Names |-> names, Action |-> action, Args |-> args]

AllowSyscalls(b, names) ==
    [b EXCEPT !.Syscalls = Append(@, Rule(names, "ActAllow", <<>>))]
BlockSyscalls(b, names) ==
    [b EXCEPT !.Syscalls = Append(@, Rule(names, "ActErrno", <<>>))]
TrapSyscalls(b, names) ==
    [b EXCEPT !.Syscalls = Append(@, Rule(names, "ActTrap", <<>>))]
AllowSyscallWithArgs(b, name, args) ==
    [b EXCEPT !.Syscalls = Append(@, Rule(<<name>>, "ActAllow", args))]

PR_SET_NAME == 15
PR_GET_NAME == 16

baseSyscalls(b) ==
    LET b1 == AllowSyscalls(b, <<"read", "write">>)
        b2 == AllowSyscalls(b1, <<"brk", "mmap">>)
        b3 == AllowSyscalls(b2, <<"execve", "execveat">>)
        b4 == AllowSyscalls(b3, <<"futex", "gettid">>)
        b5 == AllowSyscalls(b4, <<"clock_gettime", "clock_getres">>)
        b6 == AllowSyscalls(b5, <<"getpid", "getppid">>)
        b7 == AllowSyscalls(b6, <<"epoll_create1", "epoll_ctl">>)
        b8 == AllowSyscalls(b7, <<"getrandom", "arch_prctl">>)
        b9 == AllowSyscallWithArgs(b8, "prctl",
                 << [Index |-> 0, Value |-> PR_SET_NAME, Op |-> "OpEqualTo"] >>)
    IN AllowSyscallWithArgs(b9, "prctl",
          << [Index |-> 0, Value |-> PR_GET_NAME, Op |-> "OpEqualTo"] >>)

dangerousSyscalls(b) ==
    BlockSyscalls(TrapSyscalls(b, <<"ptrace", "memfd_create">>),
                  <<"mount", "umount2">>)

DefaultProfile == dangerousSyscalls(baseSyscalls(NewBuilder))

NetworkAllowProfile ==
    dangerousSyscalls(
        AllowSyscalls(baseSyscalls(NewBuilder), <<"socket", "connect">>))

\* The Go maps of profileToDockerJSON; a key that is missing yields "".
actionMap(a) ==
    CASE a = "ActAllow" -> "SCMP_ACT_ALLOW"
      [] a = "ActErrno" -> "SCMP_ACT_ERRNO"
      [] a = "ActTrap" -> "SCMP_ACT_TRAP"
      [] a = "ActLog" -> "SCMP_ACT_LOG"
      [] a = "ActKill" -> "SCMP_ACT_KILL"
      [] OTHER -> ""

\* A table that lacks the 64-bit ARM entry.
archMapX86Only(a) ==
    CASE a = "ArchX86_64" -> "SCMP_ARCH_X86_64"
      [] a = "ArchX86" -> "SCMP_ARCH_X86"
      [] OTHER -> ""

archMap(a) ==
    CASE a = "ArchX86_64" -> "SCMP_ARCH_X86_64"
      [] a = "ArchAARCH64" -> "SCMP_ARCH_AARCH64"
      [] a = "ArchX86" -> "SCMP_ARCH_X86"
      [] a = "ArchARM" -> "SCMP_ARCH_ARM"
      [] OTHER -> ""

opMap(o) ==
    CASE o = "OpEqualTo" -> "SCMP_CMP_EQ"
      [] o = "OpNotEqual" -> "SCMP_CMP_NE"
      [] o = "OpGreaterThan" -> "SCMP_CMP_GT"
      [] o = "OpGreaterEqual" -> "SCMP_CMP_GE"
      [] o = "OpLessThan" -> "SCMP_CMP_LT"
      [] o = "OpLessEqual" -> "SCMP_CMP_LE"
      [] o = "OpMaskedEqual" -> "SCMP_CMP_MASKED_EQ"
      [] OTHER -> ""

\* DockerProfileJSON / DockerNetworkProfileJSON: the profile is built and
\* profileToDockerJSON sets dp.DefaultAction.
ScBuild(variant) ==
    /\ scPc = "idle"
    /\ scVariant' = variant
    /\ scProfile' = IF variant = "network" THEN NetworkAllowProfile
                    ELSE DefaultProfile
    /\ scDp' = [NoProfile EXCEPT
                  !.DefaultAction =
                      actionMap((IF variant = "network" THEN NetworkAllowProfile
                                 ELSE DefaultProfile).DefaultAction)]
    /\ scIdx' = 1
    /\ scPc' = "archs"
    /\ UNCHANGED scProbe
    /\ UNCHANGED nonScVars

\* One turn of "for _, a := range profile.Architectures".
ScRenderArch ==
    /\ scPc = "archs"
    /\ scIdx <= Len(scProfile.Architectures)
    /\ scDp' = IF archMap(scProfile.Architectures[scIdx]) # ""
               THEN [scDp EXCEPT !.Architectures =
                        Append(@, archMap(scProfile.Architectures[scIdx]))]
               ELSE scDp
    /\ scIdx' = scIdx + 1
    /\ UNCHANGED <<scVariant, scPc, scProfile, scProbe>>
    /\ UNCHANGED nonScVars

\* The architectures are done; the loop over profile.Syscalls starts.
ScArchsDone ==
    /\ scPc = "archs"
    /\ scIdx > Len(scProfile.Architectures)
    /\ scIdx' = 1
    /\ scPc' = "rules"
    /\ UNCHANGED <<scVariant, scProfile, scDp, scProbe>>
    /\ UNCHANGED nonScVars

\* The dockerSeccompRule made of one specs.LinuxSyscall.
RenderRule(sc) ==
    [Names |-> sc.Names,
     Action |-> actionMap(sc.Action),
     Args |-> [i \in DOMAIN sc.Args |->
                  [Index |-> sc.Args[i].Index,
                   Value |-> sc.Args[i].Value,
                   Op |-> opMap(sc.Args[i].Op)]]]

\* One turn of "for _, sc := range profile.Syscalls".
ScRenderRule ==
    /\ scPc = "rules"
    /\ scIdx <= Len(scProfile.Syscalls)
    /\ scDp' = [scDp EXCEPT !.Syscalls =
                   Append(@, RenderRule(scProfile.Syscalls[scIdx]))]
    /\ scIdx' = scIdx + 1
    /\ UNCHANGED <<scVariant, scPc, scProfile, scProbe>>
    /\ UNCHANGED nonScVars

\* return json.Marshal(dp)
ScMarshal ==
    /\ scPc = "rules"
    /\ scIdx > Len(scProfile.Syscalls)
    /\ scPc' = "rendered"
    /\ UNCHANGED <<scVariant, scProfile, scDp, scIdx, scProbe>>
    /\ UNCHANGED nonScVars

\* What the two vocabularies mean to the kernel filter.
OciEffect(a) ==
    CASE a = "ActAllow" -> "allow" [] a = "ActErrno" -> "errno"
      [] a = "ActTrap" -> "trap" [] a = "ActLog" -> "log"
      [] a = "ActKill" -> "kill" [] OTHER -> "invalid"
DockerEffect(a) ==
    CASE a = "SCMP_ACT_ALLOW" -> "allow" [] a = "SCMP_ACT_ERRNO" -> "errno"
      [] a = "SCMP_ACT_TRAP" -> "trap" [] a = "SCMP_ACT_LOG" -> "log"
      [] a = "SCMP_ACT_KILL" -> "kill" [] OTHER -> "invalid"
OciMachine(a) ==
    CASE a = "ArchX86_64" -> "x86_64" [] a = "ArchAARCH64" -> "aarch64"
      [] a = "ArchX86" -> "x86" [] a = "ArchARM" -> "arm" [] OTHER -> "invalid"
DockerMachine(a) ==
    CASE a = "SCMP_ARCH_X86_64" -> "x86_64" [] a = "SCMP_ARCH_AARCH64" -> "aarch64"
      [] a = "SCMP_ARCH_X86" -> "x86" [] a = "SCMP_ARCH_ARM" -> "arm"
      [] OTHER -> "invalid"
OciRelation(o) ==
    CASE o = "OpEqualTo" -> "eq" [] o = "OpNotEqual" -> "ne"
      [] o = "OpGreaterThan" -> "gt" [] o = "OpGreaterEqual" -> "ge"
      [] o = "OpLessThan" -> "lt" [] o = "OpLessEqual" -> "le"
      [] o = "OpMaskedEqual" -> "masked_eq" [] OTHER -> "invalid"
DockerRelation(o) ==
    CASE o = "SCMP_CMP_EQ" -> "eq" [] o = "SCMP_CMP_NE" -> "ne"
      [] o = "SCMP_CMP_GT" -> "gt" [] o = "SCMP_CMP_GE" -> "ge"
      [] o = "SCMP_CMP_LT" -> "lt" [] o = "SCMP_CMP_LE" -> "le"
      [] o = "SCMP_CMP_MASKED_EQ" -> "masked_eq" [] OTHER -> "invalid"

Holds(relation, value, arg) ==
    CASE relation = "eq" -> arg = value
      [] relation = "ne" -> arg # value
      [] relation = "gt" -> arg > value
      [] relation = "ge" -> arg >= value
      [] relation = "lt" -> arg < value
      [] relation = "le" -> arg <= value
      [] OTHER -> FALSE

\* The answer of a filter to the call name(arg0, ...) made on a machine:
\* the effect of the first rule that names the call and whose argument
\* conditions hold, the default effect when there is none, "kill" on a
\* machine the filter does not list.
FilterAnswer(profile, Effect(_), Machine(_), Relation(_), machine, name, arg0) ==
    LET hits == {i \in DOMAIN profile.Syscalls :
                    /\ \E k \in DOMAIN profile.Syscalls[i].Names :
                          profile.Syscalls[i].Names[k] = name
                    /\ \A k \in DOMAIN profile.Syscalls[i].Args :
                          /\ profile.Syscalls[i].Args[k].Index = 0
                          /\ Holds(Relation(profile.Syscalls[i].Args[k].Op),
                                   profile.Syscalls[i].Args[k].Value, arg0)}
    IN IF \A k \in DOMAIN profile.Architectures :
             Machine(profile.Architectures[k]) # machine
       THEN "kill"
       ELSE IF hits = {} THEN Effect(profile.DefaultAction)
       ELSE Effect(profile.Syscalls[CHOOSE i \in hits :
                                       \A j \in hits : i <= j].Action)

Machines == {"x86_64", "aarch64", "x86"}
ProbeCalls ==
    {"read", "execve", "prctl", "socket", "connect", "ptrace", "memfd_create",
     "mount", "chroot"}
ProbeArgs == {PR_SET_NAME, PR_GET_NAME, PR_GET_NAME + 1}

\* A process of a container makes a system call; the answers of the
\* filter made of the OCI structure and of the one made of the rendered
\* profile are noted.
ScProbe(machine, name, arg0) ==
    /\ scPc = "rendered"
    /\ scProbe' = [arch |-> machine, name |-> name, arg0 |-> arg0,
                   oci |-> FilterAnswer(scProfile, OciEffect, OciMachine,
                                  OciRelation, machine, name, arg0),
                   docker |-> FilterAnswer(scDp, DockerEffect, DockerMachine,
                                     DockerRelation, machine, name, arg0)]
    /\ UNCHANGED <<scVariant, scPc, scProfile, scDp, scIdx>>
    /\ UNCHANGED nonScVars

ScInit ==
    /\ ExInit /\ MWInit /\ TrIdle /\ RLInit /\ SSENew("stdout", <<>>)
    /\ PxNew("", 0) /\ AuthNew(<<>>, FALSE) /\ HdReceived(PlainRequest)
    /\ AuditInit /\ ServerStarted("docker", {}) /\ NewServer(Burst, MaxClaude)
    /\ WorkDirReceived({}, <<>>) /\ LaunchRequested(LegacyRunner, BareRequest)
    /\ SeccompIdle /\ NewDockerRunner({}) /\ StreamIdle /\ WindowOver(0) /\ FlushNotCalled

ScNext ==
    \/ \E variant \in {"base", "network"} : ScBuild(variant)
    \/ ScRenderArch
    \/ ScArchsDone
    \/ ScRenderRule
    \/ ScMarshal
    \/ \E machine \in Machines : \E name \in ProbeCalls : \E arg0 \in ProbeArgs :
          ScProbe(machine, name, arg0)

SpecSeccomp == ScInit /\ [][ScNext]_vars

\* ------------------------------------------------------------------------
\* SpecClose: one DockerRunner with its executions (executeInternal from
\* the semaphore to the deferred calls), the passes of cleanupOrphans, and
\* Close.  Requests are valid; a container is named after its execution.

MaxReaps == 2

\* "sandbox-" + execID
ExecName(e) == <<"sandbox-", ToString(e)>>

\* A container a former server process has left behind.
Leftover == <<"sandbox-", "old">>

\* select { case d.sem <- struct{}{}: defer func() { <-d.sem }() }
DrAcquire(e) ==
    /\ drPc[e] = "idle"
    /\ drSem < MaxConcurrent
    /\ drSem' = drSem + 1
    /\ drPc' = [drPc EXCEPT ![e] = "slot"]
    /\ UNCHANGED <<drWg, drClosed, drClose, drWaiter, drReaper, drPasses,
                   drPresent, drReaped>>
    /\ UNCHANGED nonDrVars

\* d.wg.Add(1); d.active.Add(1)
DrAdd(e) ==
    /\ drPc[e] = "slot"
    /\ drWg' = drWg + 1
    /\ drPc' = [drPc EXCEPT ![e] = "counted"]
    /\ UNCHANGED <<drSem, drClosed, drClose, drWaiter, drReaper, drPasses,
                   drPresent, drReaped>>
    /\ UNCHANGED nonDrVars

\* cmd.Run() starts docker run: the container comes into being.
DrRun(e) ==
    /\ drPc[e] = "counted"
    /\ drPresent' = drPresent \cup {ExecName(e)}
    /\ drPc' = [drPc EXCEPT ![e] = "running"]
    /\ UNCHANGED <<drSem, drWg, drClosed, drClose, drWaiter, drReaper, drPasses,
                   drReaped>>
    /\ UNCHANGED nonDrVars

\* The workload ends, --rm removes the container, cmd.Run returns.
DrWorkloadExit(e) ==
    /\ drPc[e] = "running"
    /\ ExecName(e) \in drPresent
    /\ drPresent' = drPresent \ {ExecName(e)}
    /\ drPc' = [drPc EXCEPT ![e] = "exited"]
    /\ UNCHANGED <<drSem, drWg, drClosed, drClose, drWaiter, drReaper, drPasses,
                   drReaped>>
    /\ UNCHANGED nonDrVars

\* cmd.Run returns without the container having ended by itself: execCtx
\* is done and the docker CLI was killed (the container stays), or the
\* container was removed under the CLI.
DrCmdReturns(e) ==
    /\ drPc[e] = "running"
    /\ drPc' = [drPc EXCEPT ![e] = "exited"]
    /\ UNCHANGED <<drSem, drWg, drClosed, drClose, drWaiter, drReaper, drPasses,
                   drPresent, drReaped>>
    /\ UNCHANGED nonDrVars

\* executeInternal returns: d.active.Add(-1), d.wg.Done(), <-d.sem.
DrReturn(e) ==
    /\ drPc[e] = "exited"
    /\ drWg' = drWg - 1
    /\ drSem' = drSem - 1
    /\ drPc' = [drPc EXCEPT ![e] = "returned"]
    /\ UNCHANGED <<drClosed, drClose, drWaiter, drReaper, drPasses, drPresent,
                   drReaped>>
    /\ UNCHANGED nonDrVars

\* One pass of cleanupOrphans (at startup or on a tick of the ticker).
DrReap ==
    /\ drReaper = "running"
    /\ drPasses < MaxReaps
    /\ \E listOK \in BOOLEAN :
          /\ drPresent' = cleanupOrphansPass(drPresent, listOK)
          /\ drReaped' = drReaped \cup (drPresent \ cleanupOrphansPass(drPresent, listOK))
    /\ drPasses' = drPasses + 1
    /\ UNCHANGED <<drPc, drSem, drWg, drClosed, drClose, drWaiter, drReaper>>
    /\ UNCHANGED nonDrVars

\* orphanCleanupLoop takes case <-ctx.Done() and returns.
DrReaperStops ==
    /\ drReaper = "running"
    /\ drClosed
    /\ drReaper' = "stopped"
    /\ UNCHANGED <<drPc, drSem, drWg, drClosed, drClose, drWaiter, drPasses,
                   drPresent, drReaped>>
    /\ UNCHANGED nonDrVars

\* Close: d.closed = true, d.cancelCleanup(), go func() { d.wg.Wait();
\* close(done) }(), and the select is reached.
DrClose ==
    /\ drClose = "none"
    /\ drClosed' = TRUE
    /\ drWaiter' = "waiting"
    /\ drClose' = "waiting"
    /\ UNCHANGED <<drPc, drSem, drWg, drReaper, drPasses, drPresent, drReaped>>
    /\ UNCHANGED nonDrVars

\* d.wg.Wait() returns in the goroutine of Close: the counter is zero.
DrWaitReturns ==
    /\ drWaiter = "waiting"
    /\ drWg = 0
    /\ drWaiter' = "done"
    /\ UNCHANGED <<drPc, drSem, drWg, drClosed, drClose, drReaper, drPasses,
                   drPresent, drReaped>>
    /\ UNCHANGED nonDrVars

\* Close, select: case <-done.
DrCloseDrained ==
    /\ drClose = "waiting"
    /\ drWaiter = "done"
    /\ drClose' = "drained"
    /\ UNCHANGED <<drPc, drSem, drWg, drClosed, drWaiter, drReaper, drPasses,
                   drPresent, drReaped>>
    /\ UNCHANGED nonDrVars

\* Close, select: case <-time.After(30 * time.Second).
DrCloseTimedOut ==
    /\ drClose = "waiting"
    /\ drClose' = "timeout"
    /\ UNCHANGED <<drPc, drSem, drWg, drClosed, drWaiter, drReaper, drPasses,
                   drPresent, drReaped>>
    /\ UNCHANGED nonDrVars

DrInit ==
    /\ ExInit /\ MWInit /\ TrIdle /\ RLInit /\ SSENew("stdout", <<>>)
    /\ PxNew("", 0) /\ AuthNew(<<>>, FALSE) /\ HdReceived(PlainRequest)
    /\ AuditInit /\ ServerStarted("docker", {}) /\ NewServer(Burst, MaxClaude)
    /\ WorkDirReceived({}, <<>>) /\ LaunchRequested(LegacyRunner, BareRequest)
    /\ SeccompIdle
    /\ \E present \in SUBSET {Leftover} : NewDockerRunner(present)
    /\ StreamIdle /\ WindowOver(0) /\ FlushNotCalled

DrNext ==
    \/ \E e \in Execs :
          \/ DrAcquire(e)
          \/ DrAdd(e)
          \/ DrRun(e)
          \/ DrWorkloadExit(e)
          \/ DrCmdReturns(e)
          \/ DrReturn(e)
    \/ DrReap
    \/ DrReaperStops
    \/ DrClose
    \/ DrWaitReturns
    \/ DrCloseDrained
    \/ DrCloseTimedOut

SpecClose == DrInit /\ [][DrNext]_vars

\* ------------------------------------------------------------------------
\* SpecStream: HandleExecuteStream's two SSEWriters, built on the same
\* http.ResponseWriter, each with a mutex of its own.  cmd.Stdout and
\* cmd.Stderr are different writers, so os/exec copies each pipe in a
\* goroutine of its own and the two Write methods run concurrently.  Every
\* fmt.Fprintf of Write is one call on the ResponseWriter; the calls of the
\* two goroutines reach it in some order.

MaxStreamWrites == 1
MaxDataLines == 2

\* Write is entered: s.mu.Lock() (the mutex of this writer; only this
\* writer's goroutine ever takes it), the limit test, strings.Split.
StLock(k) ==
    /\ stHandler = "executing"
    /\ stPc[k] = "idle"
    /\ stLeft[k] > 0
    /\ \E lines \in 1..MaxDataLines : stLines' = [stLines EXCEPT ![k] = lines]
    /\ stLeft' = [stLeft EXCEPT ![k] = @ - 1]
    /\ stN' = [stN EXCEPT ![k] = @ + 1]
    /\ stPc' = [stPc EXCEPT ![k] = "locked"]
    /\ UNCHANGED <<stOut, stHandler>>
    /\ UNCHANGED nonStVars

\* fmt.Fprintf(s.w, "event: %s\n", s.event)
StEventLine(k) ==
    /\ stPc[k] = "locked"
    /\ stOut' = Append(stOut, [by |-> k, n |-> stN[k], part |-> "event"])
    /\ stPc' = [stPc EXCEPT ![k] = "event"]
    /\ UNCHANGED <<stLeft, stLines, stN, stHandler>>
    /\ UNCHANGED nonStVars

\* fmt.Fprintf(s.w, "data: %s\n", line), one turn of the loop.
StDataLine(k) ==
    /\ stPc[k] \in {"event", "data"}
    /\ stLines[k] > 0
    /\ stOut' = Append(stOut, [by |-> k, n |-> stN[k], part |-> "data"])
    /\ stLines' = [stLines EXCEPT ![k] = @ - 1]
    /\ stPc' = [stPc EXCEPT ![k] = "data"]
    /\ UNCHANGED <<stLeft, stN, stHandler>>
    /\ UNCHANGED nonStVars

\* fmt.Fprint(s.w, "\n")
StBlankLine(k) ==
    /\ stPc[k] = "data"
    /\ stLines[k] = 0
    /\ stOut' = Append(stOut, [by |-> k, n |-> stN[k], part |-> "end"])
    /\ stPc' = [stPc EXCEPT ![k] = "end"]
    /\ UNCHANGED <<stLeft, stLines, stN, stHandler>>
    /\ UNCHANGED nonStVars

\* s.flusher.Flush(); return len(p), nil (the deferred s.mu.Unlock()).
StUnlock(k) ==
    /\ stPc[k] = "end"
    /\ stPc' = [stPc EXCEPT ![k] = "idle"]
    /\ UNCHANGED <<stLeft, stLines, stN, stOut, stHandler>>
    /\ UNCHANGED nonStVars

\* cmd.Run has waited for both copying goroutines and ExecuteStreaming
\* returns; the handler sends the terminal event with one Fprintf
\* (sendSSEDone or sendSSEError).
StTerminal ==
    /\ stHandler = "executing"
    /\ \A k \in StreamKinds : stPc[k] = "idle" /\ stLeft[k] = 0
    /\ stOut' = Append(stOut, [by |-> "handler", n |-> 1, part |-> "terminal"])
    /\ stHandler' = "done"
    /\ UNCHANGED <<stPc, stLeft, stLines, stN>>
    /\ UNCHANGED nonStVars

StInit ==
    /\ ExInit /\ MWInit /\ TrIdle /\ RLInit /\ SSENew("stdout", <<>>)
    /\ PxNew("", 0) /\ AuthNew(<<>>, FALSE) /\ HdReceived(PlainRequest)
    /\ AuditInit /\ ServerStarted("docker", {}) /\ NewServer(Burst, MaxClaude)
    /\ WorkDirReceived({}, <<>>) /\ LaunchRequested(LegacyRunner, BareRequest)
    /\ SeccompIdle /\ NewDockerRunner({})
    /\ \E writes \in [StreamKinds -> 0..MaxStreamWrites] : StreamStarted(writes)
    /\ WindowOver(0) /\ FlushNotCalled

StNext ==
    \/ \E k \in StreamKinds :
          \/ StLock(k)
          \/ StEventLine(k)
          \/ StDataLine(k)
          \/ StBlankLine(k)
          \/ StUnlock(k)
    \/ StTerminal

SpecStream == StInit /\ [][StNext]_vars

\* ------------------------------------------------------------------------
\* SpecProxyRace: allowRequest called by several requests at once, each
\* handler in a goroutine of its own.  windowStart and windowCount are
\* atomics, so every Load, Store and Add is one step; all calls fall into
\* the second in which the old window is over.

\* now := time.Now().Unix(); windowStart := ap.windowStart.Load();
\* if now-windowStart >= 60
PrLoad(p) ==
    /\ prPc[p] = "idle"
    /\ prPc' = [prPc EXCEPT ![p] =
                  IF WindowSecs - prStart >= WindowSecs THEN "reset" ELSE "add"]
    /\ UNCHANGED <<prStart, prCount, prAllowed, prResets>>
    /\ UNCHANGED nonPrVars

\* ap.windowStart.Store(now)
PrStoreStart(p) ==
    /\ prPc[p] = "reset"
    /\ prStart' = WindowSecs
    /\ prPc' = [prPc EXCEPT ![p] = "stored"]
    /\ UNCHANGED <<prCount, prAllowed, prResets>>
    /\ UNCHANGED nonPrVars

\* ap.windowCount.Store(1); return true
PrStoreCount(p) ==
    /\ prPc[p] = "stored"
    /\ prCount' = 1
    /\ prAllowed' = prAllowed + 1
    /\ prResets' = prResets + 1
    /\ prPc' = [prPc EXCEPT ![p] = "allowed"]
    /\ UNCHANGED prStart
    /\ UNCHANGED nonPrVars

\* count := ap.windowCount.Add(1); return count <= int64(ap.maxRPM)
PrAdd(p) ==
    /\ prPc[p] = "add"
    /\ prCount' = prCount + 1
    /\ IF prCount + 1 <= RaceRPM
       THEN /\ prAllowed' = prAllowed + 1
            /\ prPc' = [prPc EXCEPT ![p] = "allowed"]
       ELSE /\ prPc' = [prPc EXCEPT ![p] = "refused"]
            /\ UNCHANGED prAllowed
    /\ UNCHANGED <<prStart, prResets>>
    /\ UNCHANGED nonPrVars

PrInit ==
    /\ ExInit /\ MWInit /\ TrIdle /\ RLInit /\ SSENew("stdout", <<>>)
    /\ PxNew("", 0) /\ AuthNew(<<>>, FALSE) /\ HdReceived(PlainRequest)
    /\ AuditInit /\ ServerStarted("docker", {}) /\ NewServer(Burst, MaxClaude)
    /\ WorkDirReceived({}, <<>>) /\ LaunchRequested(LegacyRunner, BareRequest)
    /\ SeccompIdle /\ NewDockerRunner({}) /\ StreamIdle
    /\ \E count \in 0..RaceRPM : WindowOver(count)
    /\ FlushNotCalled

PrNext ==
    \E p \in RaceCallers :
        \/ PrLoad(p)
        \/ PrStoreStart(p)
        \/ PrStoreCount(p)
        \/ PrAdd(p)

SpecProxyRace == PrInit /\ [][PrNext]_vars

\* ------------------------------------------------------------------------
\* SpecFlush: AuditWriter.Flush, called while handlers may still Log and
\* the worker may be in the middle of writeWithRetry.  The queue, Log and
\* writeWithRetry are those of SpecAudit.

\* The requests whose handlers call logAudit around the Flush.
FlushRecs == 1..NumFlushRecs

\* The records Log has sent on w.ch so far.
Accepted == {r \in AuditRecs : aqFate[r] \in {"queued", "written", "abandoned"}}

\* The records the worker has passed to writeWithRetry so far.
Handed == {r \in AuditRecs : awCur = r \/ aqFate[r] \in {"written", "abandoned"}}

\* Flush up to its select: close(w.done), the goroutine around w.wg.Wait()
\* is spawned, time.After(timeout) is armed.
FlFlush ==
    /\ flPc = "idle"
    /\ flDone' = TRUE
    /\ flPc' = "waiting"
    /\ flBefore' = Accepted
    /\ flQueued' = Len(aqCh)
    /\ UNCHANGED <<flWorker, flDoneCh>>
    /\ UNCHANGED nonFlVars

\* processLoop, outer select: case exec := <-w.ch
FlLoopTake ==
    /\ flWorker = "loop"
    /\ AwDequeue

\* processLoop, outer select: case <-w.done
FlSeeDone ==
    /\ flWorker = "loop"
    /\ awCur = 0
    /\ flDone
    /\ flWorker' = "drain"
    /\ UNCHANGED <<flPc, flDone, flDoneCh, flBefore, flQueued>>
    /\ UNCHANGED nonFlVars

\* processLoop, inner select: case exec := <-w.ch
FlDrainTake ==
    /\ flWorker = "drain"
    /\ AwDequeue

\* A worker that returns as soon as it has seen w.done.
DrainOverAtOnce(ch) == TRUE

\* processLoop, inner select: the default branch is taken when no record
\* is ready on w.ch.
DrainOver(ch) == ch = <<>>

\* processLoop: default: return, and the deferred w.wg.Done().
FlWorkerExits ==
    /\ flWorker = "drain"
    /\ awCur = 0
    /\ DrainOver(aqCh)
    /\ flWorker' = "exited"
    /\ UNCHANGED <<flPc, flDone, flDoneCh, flBefore, flQueued>>
    /\ UNCHANGED nonFlVars

\* Flush's goroutine: w.wg.Wait() returns; close(doneCh).
FlWaitReturns ==
    /\ flPc # "idle"
    /\ flWorker = "exited"
    /\ ~flDoneCh
    /\ flDoneCh' = TRUE
    /\ UNCHANGED <<flPc, flDone, flWorker, flBefore, flQueued>>
    /\ UNCHANGED nonFlVars

\* Flush: case <-doneCh
FlFlushed ==
    /\ flPc = "waiting"
    /\ flDoneCh
    /\ flPc' = "flushed"
    /\ UNCHANGED <<flDone, flWorker, flDoneCh, flBefore, flQueued>>
    /\ UNCHANGED nonFlVars

\* Flush: case <-time.After(timeout)
FlTimedOut ==
    /\ flPc = "waiting"
    /\ flPc' = "timedout"
    /\ UNCHANGED <<flDone, flWorker, flDoneCh, flBefore, flQueued>>
    /\ UNCHANGED nonFlVars

FlInit ==
    /\ ExInit /\ MWInit /\ TrIdle /\ RLInit /\ SSENew("stdout", <<>>)
    /\ PxNew("", 0) /\ AuthNew(<<>>, FALSE) /\ HdReceived(PlainRequest)
    /\ AuditInit /\ ServerStarted("docker", {}) /\ NewServer(Burst, MaxClaude)
    /\ WorkDirReceived({}, <<>>) /\ LaunchRequested(LegacyRunner, BareRequest)
    /\ SeccompIdle /\ NewDockerRunner({}) /\ StreamIdle /\ WindowOver(0)
    /\ FlushNotCalled

FlWorker == FlLoopTake \/ FlSeeDone \/ FlDrainTake \/ AwAttempt \/ FlWorkerExits

FlNext ==
    \/ \E r \in FlushRecs : AqLog(r)
    \/ FlFlush
    \/ FlWorker
    \/ FlWaitReturns
    \/ FlFlushed
    \/ FlTimedOut

SpecFlush == FlInit /\ [][FlNext]_vars

\* The worker and Flush's goroutine are goroutines the scheduler keeps
\* running, and the runtime fires the timer of time.After.
SpecFlushLive ==
    /\ SpecFlush
    /\ WF_vars(FlWorker)
    /\ WF_vars(FlWaitReturns)
    /\ WF_vars(FlFlushed)
    /\ WF_vars(FlTimedOut)

\* ============================================================== claims
\* Vocabulary of the claims.

\* e holds a slot of sem: its deferred receive from sem is still pending.
HoldsSlot(e) == "sem" \in Range(defers[e])

\* e is counted in active: its deferred active.Add(-1) is still pending.
Counted(e) == "active" \in Range(defers[e])

\* e has acquired a slot and has not yet returned from execute.
InExecute(e) == pc[e] \in InSlotPcs \cup {"unwind"}

\* execute has returned for e.
Returned(e) == pc[e] \in {"returned", "respond", "done"}

\* Admitted claude requests whose handler has not yet returned.
MWInFlight == {r \in Reqs : mwLang[r] = "claude" /\ mwPc[r] = "serving"}

\* C1: under any interleaving the number of admitted claude requests whose
\* handler has not returned never exceeds the configured maximum, and a
\* claude request that does its admission check while that number equals
\* the maximum gets 429 as its next step, without waiting.
C1_ClaudeCap ==
    /\ [](Cardinality(MWInFlight) <= mwMax)
    /\ [][\A r \in Reqs :
            (/\ mwPc[r] = "load"
             /\ Cardinality(MWInFlight) >= mwMax
             /\ mwPc'[r] # "load") => mwPc'[r] = "rejected"]_vars

\* A claude request was rejected while the cap was fully used by others.
C1_Witness ==
    \E r, q \in Reqs :
        /\ r # q
        /\ mwPc[r] = "rejected"
        /\ q \in MWInFlight
        /\ Cardinality(MWInFlight) = mwMax

\* C2: at every moment, on both backends, the number of executions that
\* have acquired a general slot and have not yet returned from execute is
\* at most max_concurrent.
C2_SlotCap == Cardinality({e \in Execs : InExecute(e)}) <= MaxConcurrent

\* Every slot is held and a further execution waits for one.
C2_Witness ==
    /\ Cardinality({e \in Execs : InExecute(e)}) = MaxConcurrent
    /\ \E e \in Execs : pc[e] = "acquire" /\ ctx[e] = "live"

\* C3: after execute returns, on every exit path, no container named
\* sandbox-<id> exists and no tempdir of that execution exists.
C3_CleanAfterReturn ==
    \A e \in Execs : Returned(e) => ~ContainerExists(e) /\ ~tempdir[e]

\* Positions whose step fails because execCtx is done.
DeadlineSteps == {"pull_image", "create_container", "create_task", "task_wait",
                  "task_start", "select", "kill_wait", "docker_run", "cmd_wait"}

\* C4: on both backends, when the deadline of an execution expires before
\* its workload has exited, what execute returns is the result with exit
\* code -1 and a timeout security event, together with ErrTimeout.
C4_TimeoutResult ==
    [][\A e \in Execs :
         (/\ ctx[e] = "deadline"
          /\ pc[e] \in DeadlineSteps
          /\ selected[e] # "exit"
          /\ cmd[e] # "exited"
          /\ pc'[e] = "unwind"
          /\ res'[e] # PanicResult) => res'[e] = TimeoutResult]_vars

\* C5: an execution whose deadline expired has been force-killed when
\* execute returns its timeout result: the workload no longer runs.
C5_TimedOutKilled ==
    \A e \in Execs :
        (pc[e] = "returned" /\ res[e] = TimeoutResult) => ~ContainerRunning(e)

\* C6: an execution at slot acquisition stays there while every slot is
\* held and its context is live; it moves on only by obtaining a free
\* slot; and it leaves with an error only when its context is cancelled,
\* with the acquire_slot error and without having held a slot.
C6_BlockingAcquire ==
    [][\A e \in Execs : pc[e] = "acquire" =>
         /\ pc'[e] \in {"acquire", "create_temp_dir", "returned"}
         /\ (sem >= MaxConcurrent /\ ctx[e] = "live") => pc'[e] = "acquire"
         /\ pc'[e] = "create_temp_dir" =>
               (sem < MaxConcurrent /\ sem' = sem + 1 /\ "sem" \in Range(defers'[e]))
         /\ pc'[e] = "returned" =>
               /\ ctx[e] = "canceled"
               /\ res'[e] = ErrorResult("acquire_slot")
               /\ sem' = sem
               /\ defers'[e] = <<>>
               /\ "slot" \notin Range(trace'[e])]_vars

\* A cancelled wait returned its error while every slot was held by others.
C6_Witness ==
    \E e \in Execs :
        /\ pc[e] = "returned"
        /\ res[e] = ErrorResult("acquire_slot")
        /\ sem = MaxConcurrent
        /\ ~HoldsSlot(e)

\* C7: once the request context is cancelled while the container runs, the
\* slot is not released and the tempdir is not removed as long as the
\* container is still running.  (On docker, exit code -1 without a timeout
\* event is the result of exactly the cancelled runs.)
C7_KillBeforeRelease ==
    \A e \in Execs :
        (/\ ContainerRunning(e)
         /\ (ctx[e] = "canceled" \/ res[e] = ExitResult(-1, "none")))
        => HoldsSlot(e) /\ tempdir[e]

Milestones == <<"validated", "slot", "started", "streams", "destroyed",
                "returned", "audit">>

Rank(m) == CHOOSE i \in DOMAIN Milestones : Milestones[i] = m

\* C9: within one execution the milestones happen in the order validated,
\* slot acquired, container started, streams observed, container
\* destroyed, result returned, audit enqueued: none before an earlier one,
\* so a started container is destroyed by the time the result is returned.
C9_MilestoneOrder ==
    \A e \in Execs :
        /\ \A i, j \in DOMAIN trace[e] :
              i < j => Rank(trace[e][i]) < Rank(trace[e][j])
        /\ ("returned" \in Range(trace[e]) /\ "started" \in Range(trace[e]))
              => "destroyed" \in Range(trace[e])

\* C10: a request that fails validation gets its error with no partial
\* work: the step that returns it acquires no slot, leaves the active
\* count as it was, and creates no tempdir and no container.
C10_NoPartialWork ==
    [][\A e \in Execs : (pc[e] = "idle" /\ pc'[e] = "returned") =>
         /\ res'[e] = ErrorResult("validate")
         /\ sem' = sem
         /\ active' = active
         /\ wg' = wg
         /\ defers' = defers
         /\ tempdir' = tempdir
         /\ container' = container
         /\ task' = task]_vars

\* A validation error was returned while another execution held a slot.
C10_Witness ==
    \E e, f \in Execs :
        /\ e # f
        /\ pc[e] = "returned"
        /\ res[e] = ErrorResult("validate")
        /\ HoldsSlot(f)
        /\ active = 1

\* C11: every result carries at most 1 MiB (1,048,576 bytes) of output and
\* at most 256 KiB (262,144 bytes) of stderr.
C11_OutputBounded ==
    trPc = "built" => (trRes.output <= StdoutMax /\ trRes.stderr <= StderrMax)

\* The workload of e has ended by itself and execute is about to read its
\* exit status while the deadline has not expired.
ExitedInTime(e) ==
    /\ ctx[e] = "live"
    /\ \/ pc[e] = "select" /\ selected[e] = "exit"
       \/ pc[e] = "cmd_wait" /\ cmd[e] = "exited"

\* C12: when the workload ends before the deadline, the result carries the
\* workload's own exit code, and it carries an oom_kill security event
\* exactly when that exit code is 137; any other non-zero code is passed
\* through with no event.
C12_ExitCodePassThrough ==
    [][\A e \in Execs :
         (ExitedInTime(e) /\ pc'[e] = "unwind" /\ res'[e] # PanicResult) =>
            /\ res'[e].kind = "result"
            /\ res'[e].code = exitCode[e]
            /\ (res'[e].event = "oom_kill") <=> (exitCode[e] = 137)
            /\ (res'[e].event = "none") <=> (exitCode[e] # 137)]_vars

\* C13: for every source ip the number of admitted requests in any interval
\* is at most burst + rps * (length of the interval), whatever other ips
\* send and whatever entries are evicted meanwhile.  Equivalently the
\* allowance of the ip (burst at the start, refilled at rps up to burst,
\* one taken by each admission) never goes below zero.
C13_RateBound == allowance >= 0

\* C14: the visitor table never holds more than the maximum number of
\* entries, and a request from an unseen ip that finds it full evicts
\* exactly one entry, one with the oldest last-seen time.
C14_TableCap ==
    /\ [](Cardinality(DOMAIN visitors) <= MaxVisitors)
    /\ [][\A ip \in IPs :
            (ip \notin DOMAIN visitors /\ ip \in DOMAIN visitors' /\ TableFull) =>
               \E k \in DOMAIN visitors :
                  /\ DOMAIN visitors' = (DOMAIN visitors \ {k}) \cup {ip}
                  /\ \A j \in DOMAIN visitors :
                        visitors[k].lastCheck <= visitors[j].lastCheck]_vars

\* A request from an unseen ip has evicted an entry of the full table, and
\* the table, full again, holds entries of different age.
C14_Witness ==
    /\ rlEvicted # 0
    /\ rlEvicted \notin DOMAIN visitors
    /\ Cardinality(DOMAIN visitors) = MaxVisitors
    /\ \E j, k \in DOMAIN visitors : visitors[j].lastCheck < visitors[k].lastCheck

\* C15: for any bytes b a workload writes to one stream, within the byte
\* limit and in any chunking into Write calls, the response parses as SSE
\* events of that stream's kind whose concatenated data equal b, and as
\* exactly the events the writer emitted: nothing in b creates an event
\* boundary, an event or a field of its own.
C15_FramingRoundTrip ==
    (sseConn = "open" /\ Len(sseTaken) <= SSELimit(sseKind)) =>
        LET events == Parse(sseOut) IN
        /\ \A i \in DOMAIN events : events[i].type = <<sseKind>>
        /\ DataOf(events) = sseTaken
        /\ Len(events) = sseEmitted

\* The bytes framed are the first bytes of the output, up to the limit.
FramedWithinLimit ==
    /\ sseWritten <= SSELimit(sseKind)
    /\ Len(sseFramed) = sseWritten
    /\ sseFramed = Take(sseTaken, Min(Len(sseTaken), SSELimit(sseKind)))

\* C16 as stated: the payload bytes a writer frames never exceed its limit
\* and bytes past the limit never appear; every Write of a non-empty p
\* returns len(p) with no error.
C16_EveryWriteAccepted ==
    /\ FramedWithinLimit
    /\ sseRet.p > 0 => (sseRet.n = sseRet.p /\ sseRet.err = "nil")

\* C16, amended: the payload bytes a writer frames never exceed its limit
\* and bytes past the limit never appear; every Write of a non-empty p
\* returns len(p) with no error, unless writing the event to the response
\* fails, in which case it returns 0 and that error.
C16_LimitAndAccept ==
    /\ FramedWithinLimit
    /\ sseRet.p > 0 =>
          \/ sseRet.n = sseRet.p /\ sseRet.err = "nil"
          \/ sseConn = "broken" /\ sseRet.n = 0 /\ sseRet.err = "write"
    /\ (sseConn = "open" /\ sseRet.p > 0) =>
          (sseRet.n = sseRet.p /\ sseRet.err = "nil")

\* A Write that went partly past the limit was cut at the limit and
\* reported as accepted in full.
C16_Witness ==
    /\ sseConn = "open"
    /\ sseRet.p > 1
    /\ sseRet.n = sseRet.p
    /\ sseWritten = SSELimit(sseKind)
    /\ Len(sseTaken) > sseWritten
    /\ Len(sseTaken) - sseRet.p < sseWritten
    /\ Len(sseOut) > 0

\* The last request was forwarded to the upstream.
Forwarded == pxLast.status = 200

\* C17: every request the proxy forwards carries the configured upstream
\* token as its only x-api-key value and no Authorization header, whatever
\* the caller sent.
C17_TokenInjected ==
    Forwarded => (pxLast.out.xApiKey = <<Token>> /\ pxLast.out.authorization = <<>>)

\* C18: with a shared secret configured, a request is forwarded only if
\* the x-api-key it presents equals the secret; any other request is
\* answered 403 and not forwarded.
C18_SecretRequired ==
    (pxSecret # "" /\ pxLast.status # 0) =>
        /\ Forwarded => Get(pxLast.presented) = pxSecret
        /\ Get(pxLast.presented) # pxSecret =>
              (pxLast.status = 403 /\ pxLast.out = NoHeaders)

\* A request whose first x-api-key value is not the secret has been
\* refused with 403 although a further value of the header is the secret.
C18_Witness ==
    /\ pxSecret = Secret
    /\ pxLast.status = 403
    /\ pxLast.presented = <<Junk, Secret>>

\* The requests forwarded in the window that started at windowStart.
InWindow == SelectSeq(pxLog, LAMBDA t : t >= windowStart)

\* C19: with a cap of N > 0 requests per minute and requests handled one at
\* a time, at most N requests are forwarded within one 60-second window,
\* every further request in the window is answered 429, and the first
\* request at or after the window's end is forwarded and starts a new
\* window as its request number 1.
C19_WindowCap ==
    /\ [](pxMaxRPM > 0 => Len(InWindow) <= pxMaxRPM)
    /\ [][(pxMaxRPM > 0 /\ pxNow' = pxNow /\ pxLast'.status # 403) =>
            IF pxNow - windowStart >= WindowSecs
            THEN /\ pxLast'.status = 200
                 /\ windowStart' = pxNow
                 /\ Len(InWindow') = 1
            ELSE /\ windowStart' = windowStart
                 /\ Len(InWindow) < pxMaxRPM => pxLast'.status = 200
                 /\ Len(InWindow) >= pxMaxRPM => pxLast'.status = 429]_vars

\* A later window, begun while forwards of the window before it were less
\* than a minute old, is used up and a further request in it got 429.
C19_Witness ==
    /\ pxMaxRPM > 0
    /\ pxLast.status = 429
    /\ Len(InWindow) = pxMaxRPM
    /\ Len(pxLog) > Len(InWindow)

\* The key a request presents in Authorization: Bearer <key>, <<>> if its
\* Authorization header has no such form.
BearerKey(a) == IF a # <<>> /\ Head(a) = "Bearer " THEN Tail(a) ELSE <<>>

\* C20: the auth middleware passes a request to the handler if and only if
\* either no keys are configured and allow_unauthenticated is set, or the
\* key presented in X-API-Key or in Authorization: Bearer <key> is in the
\* key set; every other request gets 401 and the handler is not invoked.
C20_AuthDecision ==
    auLast.status # 0 =>
        LET pass == \/ keySet(auKeys) = {} /\ auAllow
                    \/ auLast.xApiKey \in keySet(auKeys)
                    \/ BearerKey(auLast.authorization) \in keySet(auKeys)
        IN /\ auLast.served <=> pass
           /\ ~pass => auLast.status = 401

\* C21: the claude counter always equals the number of admitted claude
\* requests whose handler has not returned: the return (or panic) of such
\* a handler decrements it by one, a rejected claude request and a request
\* of another kind never change it, and a request of another kind is
\* always passed on, also with a maximum of 0.
C21_CounterExact ==
    /\ [](mwActive = Cardinality(MWInFlight))
    /\ [][\A r \in Reqs :
            /\ (mwLang[r] = "claude" /\ mwPc[r] = "serving" /\ mwPc'[r] = "done")
                  => mwActive' = mwActive - 1
            /\ (mwPc[r] # "rejected" /\ mwPc'[r] = "rejected")
                  => (mwLang[r] = "claude" /\ mwActive' = mwActive)
            /\ (mwPc[r] = "idle" /\ mwLang'[r] = "other")
                  => (mwPc'[r] = "serving" /\ mwActive' = mwActive)
            /\ (mwLang[r] = "other" /\ mwPc'[r] # mwPc[r])
                  => mwActive' = mwActive]_vars

\* With a maximum of 0 a claude request was rejected while a request of
\* another kind is being served and one has been served; the counter is 0.
C21_Witness ==
    /\ mwMax = 0
    /\ mwActive = 0
    /\ \E r, q, p \in Reqs :
          /\ mwLang[r] = "claude" /\ mwPc[r] = "rejected"
          /\ mwLang[q] = "other" /\ mwPc[q] = "serving"
          /\ mwLang[p] = "other" /\ mwPc[p] = "done"

\* C22: on both execution endpoints a request whose code has a detection
\* of critical severity is answered 403 SECURITY_BLOCKED without the
\* backend being invoked, and detections of lower severity never block.
C22_CriticalBlocked ==
    (hdPc = "answered" /\ hdReq.decoded = "ok") =>
        IF "critical" \in hdReq.detections
        THEN /\ hdResp.status = 403
             /\ hdResp.code = "SECURITY_BLOCKED"
             /\ ~hdResp.invoked
        ELSE hdResp.status # 403 /\ hdResp.invoked

\* C23: submitting an audit record never blocks the caller: with room in
\* the queue the record is enqueued, with a full queue it is dropped and
\* the queue is left as it was; either way the client gets the same
\* response.
C23_NonBlockingLog ==
    /\ [](\A r \in AuditRecs : aqReq[r] = "result" => ENABLED AqLog(r))
    /\ [](\A r \in AuditRecs : aqReq[r] = "answered" => aqResp[r] = 200)
    /\ [][\A r \in AuditRecs :
            (aqReq[r] = "result" /\ aqReq'[r] # "result") =>
               /\ aqReq'[r] = "logged"
               /\ aqResp' = aqResp
               /\ IF Len(aqCh) < AuditBufferSize
                  THEN aqCh' = Append(aqCh, r) /\ aqFate'[r] = "queued"
                  ELSE aqCh' = aqCh /\ aqFate'[r] = "dropped"]_vars

\* A record was dropped at a full queue, another was enqueued, and both
\* clients have their 200.
C23_Witness ==
    \E r, q \in AuditRecs :
        /\ aqFate[r] = "dropped" /\ aqReq[r] = "answered" /\ aqResp[r] = 200
        /\ aqFate[q] = "queued" /\ aqReq[q] = "answered" /\ aqResp[q] = 200
        /\ Len(aqCh) = AuditBufferSize

\* C24 as stated: the audit worker makes at most 3 write attempts in total
\* for each dequeued record.
C24_ThreeAttempts == \A r \in AuditRecs : aqTried[r] <= 3

\* C24, amended: the audit worker makes at most 4 write attempts in total
\* (the first and 3 retries) for each dequeued record, waiting between
\* attempts a backoff that starts at 100 ms and doubles each time, then
\* gives up on that record and moves on to the next; a write failure is
\* never reported to the caller of the request.
C24_RetryThenGiveUp ==
    /\ [](\A r \in AuditRecs : aqTried[r] <= MaxRetries + 1)
    /\ [](\A i \in DOMAIN awSlept :
             awSlept[i] = IF i = 1 THEN BackoffBaseMs ELSE 2 * awSlept[i - 1])
    /\ [](awCur # 0 => Len(awSlept) = aqTried[awCur])
    /\ [](\A r \in AuditRecs :
             /\ aqFate[r] = "abandoned" => aqTried[r] = MaxRetries + 1
             /\ aqReq[r] = "answered" => aqResp[r] = 200)
    /\ [](\A r \in AuditRecs :
             (aqFate[r] = "abandoned" /\ awCur = 0 /\ aqCh # <<>>) => ENABLED AwDequeue)
    /\ [][\A r \in AuditRecs :
            (aqFate[r] # "abandoned" /\ aqFate'[r] = "abandoned") =>
               (aqResp' = aqResp /\ aqReq' = aqReq)]_vars

\* The worker gave up on a record after its last retry, with backoffs of
\* 100, 200 and 400 ms behind it, and has taken up the next record; the
\* client of the abandoned record has its 200.
C24_Witness ==
    \E r \in AuditRecs :
        /\ aqFate[r] = "abandoned"
        /\ aqTried[r] = MaxRetries + 1
        /\ aqResp[r] = 200
        /\ awCur \notin {0, r}
        /\ Len(awSlept) > 0

\* C25: on the CLI backend the orphan reaper makes one pass at startup and
\* then one per 5-minute tick, each pass force-removing every listed
\* container named sandbox-*; after close() the loop stops and no further
\* pass is made.
C25_ReaperPasses ==
    /\ [](rpPc \in {"waiting", "stopped"} => rpPasses >= 1)
    /\ [](sdBackend = "containerd" => rpPasses = 0)
    /\ [][rpPasses' # rpPasses =>
            /\ rpPasses' = rpPasses + 1
            /\ rpPc = "spawned" \/ rpTick
            /\ rpPresent' = rpPresent \/ Listed(rpPresent') = {}]_vars
    /\ [][rpTick' /\ ~rpTick => rpSince + 1 = ReaperPeriodMin]_vars
    /\ [][rpCancelled => rpPasses' = rpPasses]_vars

\* C26: on both backends close() returns only after every in-flight
\* execution has returned or 30 s have elapsed.
C26_CloseWaits ==
    [][(sdCloseRet = "none" /\ sdCloseRet' # "none") =>
          (sdInflight = 0 \/ sdElapsed >= CloseTimeoutSecs)]_vars

\* C27: shutdown runs in this order: the reaper is stopped, the rate
\* limiter's janitor is stopped, the HTTP listener is stopped, in-flight
\* executions are awaited for up to 30 s and the survivors killed, and
\* only then the audit sink is flushed.
C27_ShutdownOrder ==
    /\ ~sdListening => (~jnRunning /\ (sdBackend = "docker" => rpCancelled))
    /\ sdCloseRet # "none" => ~sdListening
    /\ sdCloseRet = "timeout" => sdInflight = 0
    /\ (\E i \in DOMAIN sdLog : sdLog[i] = "flush") => sdCloseRet # "none"

\* C28: when the request of a streaming execution is cancelled before the
\* workload has finished, the handler ends the response without sending a
\* done event for that execution.
C28_NoDoneAfterCancel ==
    [][\A e \in Execs :
          (/\ ctx[e] = "canceled"
           /\ pc[e] \in {"kill_wait", "cmd_wait"}
           /\ pc'[e] = "unwind"
           /\ res'[e].code = -1) => ~HasResult(res'[e])]_vars

\* The stages in the order of the claim.
StageOrder ==
    <<"RecoveryMiddleware", "RequestIDMiddleware", "LoggingMiddleware",
      "SecurityHeadersMiddleware", "MaxBodyMiddleware", "RateLimitMiddleware",
      "MetricsMiddleware", "ConcurrentClaudeMiddleware", "AuthMiddleware",
      "router">>
StageRank(st) == CHOOSE i \in DOMAIN StageOrder : StageOrder[i] = st

\* r takes the step.
ChMoves(r) == chPc'[r] # chPc[r] \/ chAt'[r] # chAt[r]

\* C29: the stages that serve a request come in the order recovery,
\* request-id, logging, security headers, body cap, rate limit, metrics,
\* agent-class concurrency cap, auth, router, and a request that reaches
\* the router has passed all of the eight outer stages (and auth, unless
\* the mux serves its path itself); a request that a stage answers itself
\* is served by no later stage, and none of its steps changes the state of
\* a later stage: the bucket, the in-flight gauge, the agent-class counter,
\* the handlers.
C29_ChainOrder ==
    /\ [](\A r \in ChainReqs :
            /\ \A i, j \in DOMAIN chTrace[r] :
                  i < j => StageRank(chTrace[r][i]) < StageRank(chTrace[r][j])
            /\ r \in chHandled =>
                  /\ \A k \in 1..8 : StageOrder[k] \in Range(chTrace[r])
                  /\ chReq[r].path \notin Bypass =>
                        "AuthMiddleware" \in Range(chTrace[r])
            /\ chRejectedBy[r] # "none" =>
                  /\ chTrace[r][Len(chTrace[r])] = chRejectedBy[r]
                  /\ r \notin chHandled)
    /\ [][\A r \in ChainReqs :
            (ChMoves(r) /\ chRejectedBy'[r] # "none") =>
               LET k == StageRank(chRejectedBy'[r]) IN
               /\ k < StageRank("RateLimitMiddleware") => chTokens' = chTokens
               /\ k < StageRank("MetricsMiddleware") => chInflight' = chInflight
               /\ k < StageRank("ConcurrentClaudeMiddleware") => chActive' = chActive
               /\ k < StageRank("router") => chHandled' = chHandled]_vars

\* A rate-limited agent-class request has returned without touching the
\* gauge or the agent-class counter, which another agent-class request
\* holds after passing every stage up to the router.
C29_Witness ==
    \E r, q \in ChainReqs :
        /\ chRejectedBy[r] = "RateLimitMiddleware"
        /\ chReq[r].path = "/execute" /\ chReq[r].language = "claude"
        /\ chPc[r] = "done"
        /\ Len(chTrace[r]) = 6
        /\ chPc[q] = "handled"
        /\ chTrace[q] = StageOrder
        /\ chReq[q].language = "claude" /\ chReq[q].path = "/execute"
        /\ chActive = 1
        /\ chInflight = 1

\* The names between the slashes of a path.
RECURSIVE Segments(_)
Segments(str) ==
    IF str = <<>> THEN <<>>
    ELSE IF Head(str) = "/" THEN Segments(Tail(str))
    ELSE LET n == CHOOSE k \in 1..Len(str) :
                    /\ \A i \in 1..k : str[i] # "/"
                    /\ k = Len(str) \/ str[k + 1] = "/"
         IN <<SubSeq(str, 1, n)>> \o Segments(SubSeq(str, n + 1, Len(str)))

\* path is dir or lies below it, name by name.
AtOrBelow(path, dir) ==
    LET p == Segments(path)
        d == Segments(dir)
    IN /\ Head(path) = "/"
       /\ Len(d) <= Len(p)
       /\ SubSeq(p, 1, Len(d)) = d

\* C30: a request with a work_dir passes validation only if the path with
\* its symbolic links resolved is an existing directory, is neither one of
\* /etc, /var, /root nor below one, has no segment .ssh, .aws, .gnupg or
\* .claude, and is an allowed root or below one; with no allowed roots
\* configured every request with a work_dir is rejected.
C30_WorkDirGate ==
    (wdPc = "validated" /\ wdReq # <<>>) =>
        /\ wdErr = "nil" =>
              /\ wdReal = EvalSymlinks(wdReq).path
              /\ wdReal \in Dirs
              /\ \A prefix \in sensitivePathPrefixes : ~AtOrBelow(wdReal, prefix)
              /\ \A i \in DOMAIN Segments(wdReal) :
                    Segments(wdReal)[i] \notin sensitiveHomeDirs
              /\ \E root \in wdRoots : AtOrBelow(wdReal, root)
        /\ wdRoots = {} => wdErr # "nil"

\* A work_dir that is a link into an allowed root has passed and was
\* replaced by the resolved path.
C30_Witness ==
    /\ wdPc = "validated"
    /\ wdErr = "nil"
    /\ wdReq \in DOMAIN Links
    /\ wdReal # wdReq
    /\ wdRoots # {}

\* The request asks for the network: its flag is set or its runtime is
\* the agent class.
WantsNetwork(req) == req.networkEnabled \/ req.language = "claude"

\* C31: the container is started with network none unless the request has
\* network_enabled set or its runtime is claude; exactly in those two cases
\* its network is bridge and the seccomp file it is given holds the
\* network-allowing profile.
C31_NetworkGate ==
    daPc \in {"built", "started"} =>
        /\ ArgsOf(daArgs, "--network")
              = {IF WantsNetwork(daReq) THEN <<"bridge">> ELSE <<"none">>}
        /\ <<"seccomp=", "hostDir/", "seccomp.json">>
              \in ArgsOf(daArgs, "--security-opt")
        /\ {f[2] : f \in {g \in daFiles : g[1] = "seccomp.json"}}
              = {IF WantsNetwork(daReq) THEN "DockerNetworkProfileJSON"
                 ELSE "DockerProfileJSON"}

\* A claude container without the request's flag is started on the bridge
\* with the network profile, and a python one without it on none.
C31_Witness ==
    /\ daPc = "started"
    /\ daReq.language = "claude"
    /\ ~daReq.networkEnabled
    /\ <<"bridge">> \in ArgsOf(daArgs, "--network")
    /\ <<"seccomp.json", "DockerNetworkProfileJSON">> \in daFiles

\* The values of the host's upstream tokens.
HostTokens == {OAuthToken, ApiKeyToken}

\* The parts of the arguments, over all arguments.
ArgParts(args) == UNION {Range(args[i]) : i \in DOMAIN args}

MatchesKeyValue(env) ==
    /\ IndexEq(env) > 1
    /\ \A j \in 1..(IndexEq(env) - 1) : env[j] \in KeyChars

\* The entry's key, upper-cased, is on the blocklist.
KeyBlocked(env) == ToUpper(SubSeq(env, 1, IndexEq(env) - 1)) \in envBlocklist

\* C35: the env_vars check accepts a request if and only if every entry
\* matches ^[A-Za-z0-9_]+=.* and its key, upper-cased, is not on the
\* blocklist; the container's environment holds request entries only of
\* accepted requests.
C35_EnvGate ==
    /\ daPc # "requested" =>
          (daPc # "rejected" <=>
              \A i \in DOMAIN daReq.envVars :
                  /\ MatchesKeyValue(daReq.envVars[i])
                  /\ ~KeyBlocked(daReq.envVars[i]))
    /\ daPc = "rejected" => daArgs = <<>> /\ daEnv = {}

\* C33: for both emitted profiles the rendered profile has the rules of
\* the OCI structure, one for one and in order, each with the same names,
\* the same action and the same argument conditions (index, value,
\* comparison), the same architectures and the same default action; and
\* every system call gets the same answer from either form.
C33_RenderFaithful ==
    scPc = "rendered" =>
        /\ DockerEffect(scDp.DefaultAction) = OciEffect(scProfile.DefaultAction)
        /\ DockerEffect(scDp.DefaultAction) # "invalid"
        /\ Len(scDp.Architectures) = Len(scProfile.Architectures)
        /\ \A k \in DOMAIN scProfile.Architectures :
              /\ DockerMachine(scDp.Architectures[k])
                    = OciMachine(scProfile.Architectures[k])
              /\ DockerMachine(scDp.Architectures[k]) # "invalid"
        /\ Len(scDp.Syscalls) = Len(scProfile.Syscalls)
        /\ \A i \in DOMAIN scProfile.Syscalls :
              /\ scDp.Syscalls[i].Names = scProfile.Syscalls[i].Names
              /\ DockerEffect(scDp.Syscalls[i].Action)
                    = OciEffect(scProfile.Syscalls[i].Action)
              /\ DockerEffect(scDp.Syscalls[i].Action) # "invalid"
              /\ Len(scDp.Syscalls[i].Args) = Len(scProfile.Syscalls[i].Args)
              /\ \A k \in DOMAIN scProfile.Syscalls[i].Args :
                    /\ scDp.Syscalls[i].Args[k].Index
                          = scProfile.Syscalls[i].Args[k].Index
                    /\ scDp.Syscalls[i].Args[k].Value
                          = scProfile.Syscalls[i].Args[k].Value
                    /\ DockerRelation(scDp.Syscalls[i].Args[k].Op)
                          = OciRelation(scProfile.Syscalls[i].Args[k].Op)
                    /\ DockerRelation(scDp.Syscalls[i].Args[k].Op) # "invalid"
        /\ scProbe # NoProbe => scProbe.docker = scProbe.oci

\* Under the rendered network profile a 64-bit ARM process was allowed
\* prctl(PR_GET_NAME) and refused prctl with the next option by both forms.
C33_Witness ==
    /\ scPc = "rendered"
    /\ scVariant = "network"
    /\ scProbe.arch = "aarch64"
    /\ scProbe.name = "prctl"
    /\ scProbe.arg0 = PR_GET_NAME + 1
    /\ scProbe.oci = "errno"
    /\ scProbe.docker = "errno"

\* C34: the validator applied to the request a first application has left
\* returns the verdict of the first application and leaves the request as
\* it found it.
C34_Idempotent ==
    [][(wdPc = "validated" /\ wdPc' = "revalidated")
          => (wdErr' = wdErr /\ wdReal' = wdReal)]_vars

\* A work_dir that is a link to a link was rewritten by the first
\* application, and the validator has been applied again.
C34_Witness ==
    /\ wdPc = "revalidated"
    /\ wdReq \in DOMAIN Links
    /\ Links[wdReq] \in DOMAIN Links
    /\ wdReal # wdReq
    /\ wdErr = "nil"

\* The backend still tracks e: e is counted in d.wg and d.active.
Tracked(e) == drPc[e] \in {"counted", "running", "exited"}

\* C36: a pass of the reaper removes no container whose execution is still
\* tracked by the backend; what it removes are sandbox- containers whose
\* execution is not tracked any more.
C36_ReaperSparesInFlight ==
    [][\A e \in Execs :
          (ExecName(e) \in drReaped' \ drReaped) => ~Tracked(e)]_vars

\* C38: once Close has been called no execution acquires a slot and no
\* container is started, and Close reports the executions drained only
\* when no execution that holds a slot is left.
C38_ClosedAdmitsNothing ==
    [][/\ drClosed =>
             \A e \in Execs :
                 /\ drPc'[e] = "slot" => drPc[e] = "slot"
                 /\ drPc'[e] = "running" => drPc[e] = "running"
       /\ drClose' = "drained" =>
             \A e \in Execs : drPc'[e] \notin {"slot", "counted", "running", "exited"}
      ]_vars

\* C37: on the shared response the calls that make up one event of a
\* writer (event line, data lines, blank line) are consecutive: no call of
\* the other writer or of the terminal event falls between them.
C37_EventsWhole ==
    \A i \in DOMAIN stOut : \A j \in DOMAIN stOut :
        (i < j /\ stOut[i].by = stOut[j].by /\ stOut[i].n = stOut[j].n)
            => \A m \in i..j : stOut[m].by = stOut[i].by

\* C39: of the requests that race across a window boundary, those allowed
\* in the new window exceed the cap by no more than the number of requests
\* that performed the reset, and no reset is performed on a window in
\* which a request has already been counted.
C39_SmallOvershoot ==
    [][/\ prAllowed' <= RaceRPM + prResets'
       /\ \A p \in RaceCallers :
             (prPc[p] = "stored" /\ prPc'[p] = "allowed")
                => (prAllowed = 0 \/ prCount <= 1)]_vars

====
